---- MODULE Spec2Model ----
(***************************************************************************)
(* Hybrid retrieval and citation-generating answer engine.                 *)
(*                                                                         *)
(*   app/core/keyword_search.py    BM25Searcher      (KeywordIndex)        *)
(*   app/core/hybrid_retrieval.py  HybridRetriever   (FusionEngine,        *)
(*                                                    RetrievalCoordinator)*)
(*   app/core/rag_pipeline.py      RAGPipeline       (GenerationOrchestr.) *)
(*   app/core/llm_service.py       LLMService.astream                      *)
(*                                                                         *)
(* Python floats are modelled as exact rationals [n, d] in lowest terms,   *)
(* so equality of scores is equality of records.                           *)
(***************************************************************************)
EXTENDS Integers, Sequences, FiniteSets, TLC

VARIABLES
    settings,          \* RetrievalSettings: fusion_method, rrf_k, weights
    dense_results,     \* _fuse_results: the dense list handed to fusion
    keyword_results,   \* _fuse_results: the keyword list handed to fusion
    fused,             \* _fuse_results: the list it returned
    fused_before,      \* the list returned for the unscaled dense list
    fpc,               \* position of the fusion run: "input", "fused", "scaled"
    spc,               \* arag_stream: "idle", "streaming", "done", "cancelled"
    chunks,            \* arag_stream: the chunks retrieve() returned
    citations,         \* arag_stream: the citation list built before streaming
    llm_stream,        \* the contents the generation client has still to deliver
    emitted,           \* the items arag_stream has yielded so far
    store,             \* the points of the vector store collection
    bm25,              \* HybridRetriever._bm25: the BM25Searcher
    index_built,       \* HybridRetriever._index_built
    tpc,               \* where each thread is in search()
    call,              \* each thread's arguments: query, use_cache
    scan,              \* each thread's _build_keyword_index locals
    out,               \* each thread's dense_results, keyword_results, results
    obs,               \* history of each thread's current call
    hist,              \* history of the index: rebuilds and clears so far
    kadds,             \* BM25Searcher alone: add_document calls made so far
    kcall,             \* BM25Searcher alone: the last search's query and top_k
    kout,              \* BM25Searcher alone: what that search returned
    apc,               \* rag / arag: "idle", "retrieved", "done", "failed"
    acall,             \* rag / arag: which of the two, query, top_k
    achunks,           \* rag / arag: the chunks retrieve() returned
    response,          \* rag / arag: the ChatResponse returned
    llm_calls,         \* rag / arag: calls of the generation client so far
    flpc,              \* filter translation: "input", "translated"
    filters_in,        \* filter translation: the MetadataFilter list
    qdrant_filter,     \* filter translation: what each of the two builders made
    rpc,               \* search route: "idle" or "searching"
    body,              \* search route: the request's fusion_method ("" for none)
    original_method,   \* search route: the local original_method
    req,               \* search route, two requests at a time: each one's locals
    call_filters,      \* the filters argument of the caller's search
    prev               \* the last completed search call and what it returned

fusion_vars == <<settings, dense_results, keyword_results, fused, fused_before, fpc>>

stream_vars == <<spc, chunks, citations, llm_stream, emitted>>

retriever_vars == <<store, bm25, index_built, tpc, call, scan, out, obs, hist>>

keyword_vars == <<kadds, kcall, kout>>

answer_vars == <<apc, acall, achunks, response, llm_calls>>

filter_vars == <<flpc, filters_in, qdrant_filter>>

route_vars == <<rpc, body, original_method, req>>

repeat_vars == <<call_filters, prev>>

\* what the fusion, streaming and plain search runs never touch
other_vars == <<keyword_vars, answer_vars, filter_vars, route_vars, repeat_vars>>

vars == <<fusion_vars, stream_vars, retriever_vars, other_vars>>

(***************************************************************************)
(* Exact rational arithmetic                                               *)
(***************************************************************************)
Abs(x) == IF x < 0 THEN -x ELSE x

Min(a, b) == IF a <= b THEN a ELSE b

RECURSIVE Gcd(_, _)
Gcd(a, b) == IF b = 0 THEN a ELSE Gcd(b, a % b)

\* n/d in lowest terms with a positive denominator
Rat(n, d) ==
    LET s == IF d < 0 THEN -1 ELSE 1
        g == Gcd(Abs(n), Abs(d))
    IN  [n |-> (s * n) \div g, d |-> (s * d) \div g]

RZero == [n |-> 0, d |-> 1]

ROne == [n |-> 1, d |-> 1]

RInt(i) == [n |-> i, d |-> 1]

RAdd(a, b) ==
    LET g == Gcd(a.d, b.d)
    IN  Rat(a.n * (b.d \div g) + b.n * (a.d \div g), (a.d \div g) * b.d)

\* cross-cancel before multiplying, to keep the intermediate products small
RMul(a, b) ==
    LET g1 == Gcd(Abs(a.n), b.d)
        g2 == Gcd(Abs(b.n), a.d)
        h1 == IF g1 = 0 THEN 1 ELSE g1
        h2 == IF g2 = 0 THEN 1 ELSE g2
    IN  Rat((a.n \div h1) * (b.n \div h2), (a.d \div h2) * (b.d \div h1))

\* a / b, b # 0
RDiv(a, b) == RMul(a, IF b.n < 0 THEN [n |-> -b.d, d |-> -b.n] ELSE [n |-> b.d, d |-> b.n])

RLt(a, b) == a.n * b.d < b.n * a.d

RLe(a, b) == a.n * b.d <= b.n * a.d

RPos(a) == a.n > 0

SeqsUpTo(S, n) == UNION {[1..m -> S] : m \in 0..n}

RECURSIVE RMaxSeq(_, _)
\* max(...) over a sequence of rationals, default when it is empty
RMaxSeq(s, default) ==
    IF s = <<>> THEN default
    ELSE IF Len(s) = 1 THEN s[1]
    ELSE LET m == RMaxSeq(Tail(s), default)
         IN  IF RLt(s[1], m) THEN m ELSE s[1]

(***************************************************************************)
(* RetrievalSettings (retrieval_config.py)                                 *)
(***************************************************************************)
DefaultSettings ==
    [fusion_method |-> "rrf", rrf_k |-> 60,
     dense_weight |-> Rat(7, 10), keyword_weight |-> Rat(3, 10)]

\* rrf_k: int = 60, overridable from the environment
RrfKValues == {1, 60}

SettingsChoices ==
    {[DefaultSettings EXCEPT !.rrf_k = k] : k \in RrfKValues}
    \cup {[DefaultSettings EXCEPT !.fusion_method = "weighted"]}

\* the configurations a request can run under: fusion_method is set per
\* request by the search route
MethodChoices ==
    {DefaultSettings, [DefaultSettings EXCEPT !.fusion_method = "weighted"]}

\* no fusion run is under way
FusionIdle ==
    /\ dense_results = <<>>
    /\ keyword_results = <<>>
    /\ fused = <<>>
    /\ fused_before = <<>>
    /\ fpc = "input"

\* no search has been made on a BM25Searcher used alone
\* op is "build" after build_vocab(), "build_again" after a build_vocab() that
\* directly follows another; rebuilt tells whether the search ran build_vocab
NoKeywordCall ==
    [query |-> <<>>, top_k |-> 0, searched |-> FALSE, error |-> "none",
     op |-> "none", rebuilt |-> FALSE]

KeywordIdle ==
    /\ kadds = 0
    /\ kcall = NoKeywordCall
    /\ kout = <<>>

NoAnswerCall == [mode |-> "rag", query |-> <<>>, top_k |-> 0]

NoResponse == [answer |-> "", citations |-> <<>>]

\* no rag / arag call is under way
AnswerIdle ==
    /\ apc = "idle"
    /\ acall = NoAnswerCall
    /\ achunks = <<>>
    /\ response = NoResponse
    /\ llm_calls = 0

\* Python's None for a Filter
NoFilter == [none |-> TRUE, must |-> <<>>]

NoTranslation == [dense |-> NoFilter, rag |-> NoFilter]

FilterIdle ==
    /\ flpc = "input"
    /\ filters_in = <<>>
    /\ qdrant_filter = NoTranslation

\* a request that has not arrived: pc, body.fusion_method, the local
\* original_method, the query, the method the fusion ran under and the
\* results; started is fusion_method as it was before the requests started
NoRequest ==
    [pc |-> "idle", body |-> "", original_method |-> "", query |-> <<>>,
     used |-> "", results |-> <<>>, started |-> ""]

RouteIdle ==
    /\ rpc = "idle"
    /\ body = ""
    /\ original_method = ""
    /\ req = <<NoRequest, NoRequest>>

\* debug_info; a one-element sequence carries a value, the empty one is None
NoDebug ==
    [dense_count |-> 0, keyword_count |-> 0, fusion_method |-> "",
     weights |-> <<>>, rrf_k |-> <<>>]

\* stored is the size of the store during the call, index the keyword index
\* the call scored against, cleared_after whether clear_index() ran since
NoPrev ==
    [valid |-> FALSE, query |-> <<>>, filters |-> <<>>, use_cache |-> TRUE,
     stored |-> 0, index |-> <<>>, cleared_after |-> FALSE, error |-> "none",
     results |-> <<>>, keyword |-> <<>>, debug_info |-> NoDebug]

RepeatIdle ==
    /\ call_filters = <<>>
    /\ prev = NoPrev

OtherIdle ==
    /\ KeywordIdle
    /\ AnswerIdle
    /\ FilterIdle
    /\ RouteIdle
    /\ RepeatIdle

(***************************************************************************)
(* FusionEngine: HybridRetriever._fuse_results                             *)
(*                                                                         *)
(* A SearchResult / KeywordResult is [document_id, chunk_index, score,     *)
(* chunk_id, payload]; payload stands for chunk_text, title, author, page, *)
(* section and tags, which the code always copies together.                *)
(***************************************************************************)
KeyOf(r) == <<r.document_id, r.chunk_index>>

\* position of the entry with this key in the merge map, 0 when absent
RECURSIVE IndexOfKey(_, _)
IndexOfKey(all, key) ==
    IF all = <<>> THEN 0
    ELSE IF KeyOf(all[Len(all)]) = key /\ IndexOfKey(SubSeq(all, 1, Len(all) - 1), key) = 0
         THEN Len(all)
    ELSE IndexOfKey(SubSeq(all, 1, Len(all) - 1), key)

\* FusionResult built from a dense result (lines 228-241)
DenseEntry(r) ==
    [chunk_id |-> <<"key", r.document_id, r.chunk_index>>,
     payload |-> r.payload,
     dense_score |-> r.score,
     keyword_score |-> RZero,
     fused_score |-> RZero,
     document_id |-> r.document_id,
     chunk_index |-> r.chunk_index]

\* FusionResult built from a keyword-only result (lines 249-262)
KeywordEntry(r) ==
    [chunk_id |-> r.chunk_id,
     payload |-> r.payload,
     dense_score |-> RZero,
     keyword_score |-> r.score,
     fused_score |-> RZero,
     document_id |-> r.document_id,
     chunk_index |-> r.chunk_index]

\* a merge that collects the dense results in a list instead of a dict
PutDenseAppend(all, r) == Append(all, DenseEntry(r))

\* a merge that keeps the entry of a key that is already present
PutDenseKeepFirst(all, r) ==
    IF IndexOfKey(all, KeyOf(r)) = 0 THEN Append(all, DenseEntry(r)) ELSE all

\* all_results[key] = FusionResult(...): a dict assignment keeps the position
\* of a key that is already present and appends a new key at the end
PutDense(all, r) ==
    LET i == IndexOfKey(all, KeyOf(r))
    IN  IF i = 0 THEN Append(all, DenseEntry(r))
        ELSE [all EXCEPT ![i] = DenseEntry(r)]

RECURSIVE MergeDense(_, _)
MergeDense(all, dense) ==
    IF dense = <<>> THEN all
    ELSE MergeDense(PutDense(all, dense[1]), Tail(dense))

\* a merge that stores the keyword result over the dense entry
PutKeywordOverwrite(all, r) ==
    LET i == IndexOfKey(all, KeyOf(r))
    IN  IF i = 0 THEN Append(all, KeywordEntry(r))
        ELSE [all EXCEPT ![i] = KeywordEntry(r)]

PutKeyword(all, r) ==
    LET i == IndexOfKey(all, KeyOf(r))
    IN  IF i = 0 THEN Append(all, KeywordEntry(r))
        ELSE [all EXCEPT ![i].keyword_score = r.score]

RECURSIVE MergeKeyword(_, _)
MergeKeyword(all, kws) ==
    IF kws = <<>> THEN all
    ELSE MergeKeyword(PutKeyword(all, kws[1]), Tail(kws))

\* list(all_results.values()) after both loops
MergeMap(dense, kws) == MergeKeyword(MergeDense(<<>>, dense), kws)

\* {key: rank for rank, r in enumerate(results, 1)}.get(key, 0):
\* a later occurrence of a key overwrites the rank of an earlier one
RECURSIVE RankOf(_, _)
RankOf(results, key) ==
    IF results = <<>> THEN 0
    ELSE IF KeyOf(results[Len(results)]) = key THEN Len(results)
    ELSE RankOf(SubSeq(results, 1, Len(results) - 1), key)

\* ranks counted from 0, as enumerate(results) without a start would give
RrfScoreZeroBased(k, dense_rank, keyword_rank) ==
    RAdd(IF dense_rank > 0 THEN Rat(1, k + dense_rank - 1) ELSE RZero,
         IF keyword_rank > 0 THEN Rat(1, k + keyword_rank - 1) ELSE RZero)

RrfScore(k, dense_rank, keyword_rank) ==
    RAdd(IF dense_rank > 0 THEN Rat(1, k + dense_rank) ELSE RZero,
         IF keyword_rank > 0 THEN Rat(1, k + keyword_rank) ELSE RZero)

_reciprocal_rank_fusion(all, dense, kws, k) ==
    [i \in 1..Len(all) |->
        [all[i] EXCEPT !.fused_score =
            RrfScore(k, RankOf(dense, KeyOf(all[i])), RankOf(kws, KeyOf(all[i])))]]

\* a normalisation that forgets to divide by the maximum
NormalizeNoDivision(score, max) == IF RPos(max) THEN score ELSE RZero

\* a normalisation that hands the score through when the maximum is <= 0
NormalizeUnlessNoMax(score, max) == IF RPos(max) THEN RDiv(score, max) ELSE score

\* score / max if max > 0 else 0
Normalize(score, max) == IF RPos(max) THEN RDiv(score, max) ELSE RZero

_weighted_fusion(all, dense_weight, keyword_weight) ==
    LET max_dense == RMaxSeq([i \in 1..Len(all) |-> all[i].dense_score], ROne)
        max_keyword == RMaxSeq([i \in 1..Len(all) |-> all[i].keyword_score], ROne)
    IN  [i \in 1..Len(all) |->
            [all[i] EXCEPT !.fused_score =
                RAdd(RMul(dense_weight, Normalize(all[i].dense_score, max_dense)),
                     RMul(keyword_weight, Normalize(all[i].keyword_score, max_keyword)))]]

RECURSIVE InsertDescUnstable(_, _)
\* a descending sort that puts an entry ahead of the entries it ties with
InsertDescUnstable(sorted, e) ==
    IF sorted = <<>> THEN <<e>>
    ELSE IF RLe(sorted[Len(sorted)].fused_score, e.fused_score)
         THEN Append(InsertDescUnstable(SubSeq(sorted, 1, Len(sorted) - 1), e),
                     sorted[Len(sorted)])
    ELSE Append(sorted, e)

\* insert e behind every entry whose fused score is >= its own: with the
\* entries taken in list order this is list.sort(key=fused_score, reverse=True),
\* which is stable
RECURSIVE InsertDesc(_, _)
InsertDesc(sorted, e) ==
    IF sorted = <<>> THEN <<e>>
    ELSE IF RLt(sorted[Len(sorted)].fused_score, e.fused_score)
         THEN Append(InsertDesc(SubSeq(sorted, 1, Len(sorted) - 1), e), sorted[Len(sorted)])
    ELSE Append(sorted, e)

RECURSIVE SortFrom(_, _)
SortFrom(sorted, rest) ==
    IF rest = <<>> THEN sorted
    ELSE SortFrom(InsertDesc(sorted, rest[1]), Tail(rest))

SortByFusedDesc(list) == SortFrom(<<>>, list)

ApplyFusion(st, dense, kws) ==
    IF st.fusion_method = "rrf"
    THEN _reciprocal_rank_fusion(MergeMap(dense, kws), dense, kws, st.rrf_k)
    ELSE _weighted_fusion(MergeMap(dense, kws), st.dense_weight, st.keyword_weight)

_fuse_results(st, dense, kws) == SortByFusedDesc(ApplyFusion(st, dense, kws))

(***************************************************************************)
(* Metadata filters: HybridRetriever._dense_search lines 120-132 and       *)
(* RAGPipeline._build_filter.  A MetadataFilter is [field, operator,       *)
(* value]; a value is [kind, str, num, list] with kind "str", "num" or     *)
(* "list" naming the field that carries it.  A Filter is [none, must].     *)
(***************************************************************************)
MaxFilters == 2

StrValue(v) == [kind |-> "str", str |-> v, num |-> 0, list |-> <<>>]

NumValue(n) == [kind |-> "num", str |-> "", num |-> n, list |-> <<>>]

ListValue(l) == [kind |-> "list", str |-> "", num |-> 0, list |-> l]

FilterChoices ==
    {[field |-> "document_id", operator |-> "eq", value |-> StrValue("d2")],
     [field |-> "document_id", operator |-> "in", value |-> ListValue(<<"d2">>)],
     [field |-> "document_id", operator |-> "in", value |-> StrValue("d2")],
     [field |-> "document_id", operator |-> "ne", value |-> StrValue("d1")],
     [field |-> "chunk_index", operator |-> "gte", value |-> NumValue(1)],
     [field |-> "chunk_index", operator |-> "lt", value |-> NumValue(1)],
     [field |-> "title", operator |-> "contains", value |-> StrValue("Pets")]}

RangeOperators == {"gt", "gte", "lt", "lte"}

\* one pass of "for f in filters": the condition appended, if any
Condition(f) ==
    IF f.operator = "eq"
    THEN <<[key |-> f.field, kind |-> "match_value", op |-> "eq", value |-> f.value]>>
    ELSE IF f.operator = "in" /\ f.value.kind = "list"
    THEN <<[key |-> f.field, kind |-> "match_any", op |-> "in", value |-> f.value]>>
    ELSE IF f.operator \in RangeOperators
    THEN <<[key |-> f.field, kind |-> "range", op |-> f.operator, value |-> f.value]>>
    ELSE <<>>

RECURSIVE Conditions(_)
Conditions(filters) ==
    IF filters = <<>> THEN <<>> ELSE Condition(Head(filters)) \o Conditions(Tail(filters))

\* a translation that hands the store Filter(must=[]) when nothing is left
DenseFilterEmptyMust(filters) ==
    IF filters = <<>> THEN NoFilter ELSE [none |-> FALSE, must |-> Conditions(filters)]

\* _dense_search lines 121-132: qdrant_filter
DenseFilter(filters) ==
    IF filters = <<>> \/ Conditions(filters) = <<>> THEN NoFilter
    ELSE [none |-> FALSE, must |-> Conditions(filters)]

\* RAGPipeline.search line 41 with _build_filter
_build_filter(filters) ==
    IF filters = <<>> THEN NoFilter
    ELSE IF Conditions(filters) = <<>> THEN NoFilter
    ELSE [none |-> FALSE, must |-> Conditions(filters)]

\* the payload value a condition on key looks at, if the point has one
StrField(p, key) == IF key = "document_id" THEN <<p.document_id>> ELSE <<>>

NumField(p, key) == IF key = "chunk_index" THEN <<p.chunk_index>> ELSE <<>>

\* the store's evaluation of one condition on a point's payload
Satisfies(p, c) ==
    IF c.kind = "match_value"
    THEN \/ c.value.kind = "str" /\ StrField(p, c.key) = <<c.value.str>>
         \/ c.value.kind = "num" /\ NumField(p, c.key) = <<c.value.num>>
    ELSE IF c.kind = "match_any"
    THEN \E i \in 1..Len(c.value.list) : StrField(p, c.key) = <<c.value.list[i]>>
    ELSE /\ c.value.kind = "num"
         /\ NumField(p, c.key) # <<>>
         /\ LET x == NumField(p, c.key)[1]
            IN  CASE c.op = "gt" -> x > c.value.num
                  [] c.op = "gte" -> x >= c.value.num
                  [] c.op = "lt" -> x < c.value.num
                  [] OTHER -> x <= c.value.num

\* Filter(must=conditions): every condition holds; None lets every point pass
Passes(p, flt) == flt.none \/ \A i \in 1..Len(flt.must) : Satisfies(p, flt.must[i])

(***************************************************************************)
(* KeywordIndex: BM25Searcher (keyword_search.py)                          *)
(*                                                                         *)
(* A text is a sequence of raw words.  The index is the record             *)
(*   [documents, term_doc_freq, avg_doc_length, total_docs, vocab_built];  *)
(* documents is the dict in insertion order, one record                    *)
(*   [chunk_id, text, tokens, term_freq, length, metadata] per entry.      *)
(***************************************************************************)
Terms == {"cats", "and", "dogs", "only"}

\* re.findall(r'\b[a-zA-Z0-9]+\b', text.lower()) on one raw word
WordTokens(w) ==
    CASE w = "Cats" -> <<"cats">>
      [] w = "Dogs" -> <<"dogs">>
      [] w = "!" -> <<>>
      [] w = "?" -> <<>>
      [] OTHER -> <<w>>

RECURSIVE _tokenize(_)
_tokenize(text) ==
    IF text = <<>> THEN <<>> ELSE WordTokens(Head(text)) \o _tokenize(Tail(text))

_compute_term_freq(tokens) ==
    [t \in Terms |-> Cardinality({i \in 1..Len(tokens) : tokens[i] = t})]

\* BM25Searcher.__init__ and the state clear() leaves
EmptyIndex ==
    [documents |-> <<>>,
     term_doc_freq |-> [t \in Terms |-> 0],
     avg_doc_length |-> RZero,
     total_docs |-> 0,
     vocab_built |-> FALSE]

\* position of chunk_id in the documents dict, 0 when absent
DocIndex(documents, chunk_id) ==
    IF \E i \in 1..Len(documents) : documents[i].chunk_id = chunk_id
    THEN CHOOSE i \in 1..Len(documents) : documents[i].chunk_id = chunk_id
    ELSE 0

add_document(b, chunk_id, text, metadata) ==
    LET tokens == _tokenize(text)
        term_freq == _compute_term_freq(tokens)
        doc == [chunk_id |-> chunk_id, text |-> text, tokens |-> tokens,
                term_freq |-> term_freq, length |-> Len(tokens), metadata |-> metadata]
        i == DocIndex(b.documents, chunk_id)
    IN  [b EXCEPT
            !.documents = IF i = 0 THEN Append(@, doc) ELSE [@ EXCEPT ![i] = doc],
            !.term_doc_freq = [t \in Terms |-> IF term_freq[t] > 0 THEN @[t] + 1 ELSE @[t]],
            !.vocab_built = FALSE]

RECURSIVE SumLengths(_)
SumLengths(documents) ==
    IF documents = <<>> THEN 0 ELSE Head(documents).length + SumLengths(Tail(documents))

\* a build that computes the statistics and leaves vocab_built as it was
build_vocabUnflagged(b) ==
    IF b.documents = <<>> THEN b
    ELSE [b EXCEPT
            !.avg_doc_length = Rat(SumLengths(b.documents), Len(b.documents)),
            !.total_docs = Len(b.documents)]

\* a build that adds the documents to the total it finds
build_vocabAccumulating(b) ==
    IF b.documents = <<>> THEN b
    ELSE [b EXCEPT
            !.avg_doc_length = Rat(SumLengths(b.documents), Len(b.documents)),
            !.total_docs = @ + Len(b.documents),
            !.vocab_built = TRUE]

\* a build that leaves avg_doc_length as it was
build_vocabNoAverage(b) ==
    IF b.documents = <<>> THEN b
    ELSE [b EXCEPT !.total_docs = Len(b.documents), !.vocab_built = TRUE]

\* build_vocab(), lines 80-88
build_vocab(b) ==
    IF b.documents = <<>> THEN b
    ELSE [b EXCEPT
            !.avg_doc_length = Rat(SumLengths(b.documents), Len(b.documents)),
            !.total_docs = Len(b.documents),
            !.vocab_built = TRUE]

\* a clear that forgets the documents and keeps the document frequencies
clearDocumentsOnly(b) == [EmptyIndex EXCEPT !.term_doc_freq = b.term_doc_freq]

\* clear(): documents, frequencies, average length and total are reset
clear(b) == EmptyIndex

bm25_k1 == Rat(3, 2)

bm25_b == Rat(3, 4)

\* round(1000 * math.log((N - df + 0.5) / (df + 0.5) + 1.0)), N = 0..6 by row,
\* df = 1..8 by column
IdfMilli ==
    << <<-405, -916, -1253, -1504, -1705, -1872, -2015, -2140>>,
       <<288, -223, -560, -811, -1012, -1179, -1322, -1447>>,
       <<693, 182, -154, -405, -606, -773, -916, -1041>>,
       <<981, 470, 134, -118, -318, -486, -629, -754>>,
       <<1204, 693, 357, 105, -95, -262, -405, -531>>,
       <<1386, 875, 539, 288, 87, -80, -223, -348>>,
       <<1540, 1030, 693, 442, 241, 74, -69, -194>> >>

\* the idf without the "+ 1.0" under the logarithm, to three decimals:
\* round(1000 * math.log((N - df + 0.5) / (df + 0.5))), -9999 where the
\* logarithm is undefined
IdfWithoutOne(total_docs, df) ==
    Rat(<< <<-9999, -9999, -9999, -9999, -9999, -9999, -9999, -9999>>,
           <<-1099, -9999, -9999, -9999, -9999, -9999, -9999, -9999>>,
           <<0, -1609, -9999, -9999, -9999, -9999, -9999, -9999>>,
           <<511, -511, -1946, -9999, -9999, -9999, -9999, -9999>>,
           <<847, 0, -847, -2197, -9999, -9999, -9999, -9999>>,
           <<1099, 336, -336, -1099, -2398, -9999, -9999, -9999>>,
           <<1299, 588, 0, -588, -1299, -2565, -9999, -9999>> >>[total_docs + 1][df], 1000)

\* idf, to three decimals
Idf(total_docs, df) == Rat(IdfMilli[total_docs + 1][df], 1000)

\* the denominator: tf + k1 * (1 - b + b * (doc_length / avg_doc_length))
TfDenominator(tf, doc_length, avg_doc_length) ==
    RAdd(RInt(tf),
         RMul(bm25_k1,
              RAdd(RAdd(ROne, RMul(RInt(-1), bm25_b)),
                   RMul(bm25_b, RDiv(RInt(doc_length), avg_doc_length)))))

\* (tf * (k1 + 1)) / (tf + k1 * (1 - b + b * (doc_length / avg_doc_length)))
TfComponent(tf, doc_length, avg_doc_length) ==
    RDiv(RMul(RInt(tf), RAdd(bm25_k1, ROne)),
         RAdd(RInt(tf),
              RMul(bm25_k1,
                   RAdd(RAdd(ROne, RMul(RInt(-1), bm25_b)),
                        RMul(bm25_b, RDiv(RInt(doc_length), avg_doc_length))))))

\* the query terms that reach the idf and tf computation for this document
ScoredTerms(b, query_tokens, doc) ==
    {i \in 1..Len(query_tokens) :
        doc.term_freq[query_tokens[i]] > 0 /\ b.term_doc_freq[query_tokens[i]] # 0}

RECURSIVE _bm25_score(_, _, _)
_bm25_score(b, query_tokens, doc) ==
    IF query_tokens = <<>> THEN RZero
    ELSE LET term == Head(query_tokens)
             rest == _bm25_score(b, Tail(query_tokens), doc)
         IN  IF doc.term_freq[term] = 0 \/ b.term_doc_freq[term] = 0 THEN rest
             ELSE RAdd(RMul(Idf(b.total_docs, b.term_doc_freq[term]),
                            TfComponent(doc.term_freq[term], doc.length, b.avg_doc_length)),
                       rest)

\* doc_length / self.avg_doc_length with avg_doc_length = 0.0
ScoreRaises(b, query_tokens) ==
    /\ b.avg_doc_length = RZero
    /\ \E i \in 1..Len(b.documents) : ScoredTerms(b, query_tokens, b.documents[i]) # {}

KeywordHit(doc, score) ==
    [chunk_id |-> doc.chunk_id,
     payload |-> doc.text,
     score |-> score,
     document_id |-> doc.metadata.document_id,
     chunk_index |-> doc.metadata.chunk_index]

RECURSIVE InsertByScoreDescUnstable(_, _)
\* a descending sort that puts an entry ahead of the entries it ties with
InsertByScoreDescUnstable(sorted, e) ==
    IF sorted = <<>> THEN <<e>>
    ELSE IF RLe(sorted[Len(sorted)].score, e.score)
         THEN Append(InsertByScoreDescUnstable(SubSeq(sorted, 1, Len(sorted) - 1), e),
                     sorted[Len(sorted)])
    ELSE Append(sorted, e)

\* sorted(..., key=score, reverse=True): stable
RECURSIVE InsertByScoreDesc(_, _)
InsertByScoreDesc(sorted, e) ==
    IF sorted = <<>> THEN <<e>>
    ELSE IF RLt(sorted[Len(sorted)].score, e.score)
         THEN Append(InsertByScoreDesc(SubSeq(sorted, 1, Len(sorted) - 1), e),
                     sorted[Len(sorted)])
    ELSE Append(sorted, e)

RECURSIVE RankByScore(_, _)
RankByScore(sorted, rest) ==
    IF rest = <<>> THEN sorted
    ELSE RankByScore(InsertByScoreDesc(sorted, Head(rest)), Tail(rest))

Truncate(list, k) == SubSeq(list, 1, Min(Len(list), k))

\* a scoring loop that skips the documents the caller's filters exclude
ScoreDocumentsFiltered(b, query, top_k) ==
    LET query_tokens == _tokenize(query)
        kept == SelectSeq(b.documents,
                          LAMBDA d : Passes(d.metadata, DenseFilter(call_filters)))
        hits == [i \in 1..Len(kept) |->
                    KeywordHit(kept[i], _bm25_score(b, query_tokens, kept[i]))]
    IN  IF b.documents = <<>> \/ query_tokens = <<>> THEN <<>>
        ELSE Truncate(RankByScore(<<>>, SelectSeq(hits, LAMBDA h : RPos(h.score))), top_k)

\* a scoring loop that keeps every document, whatever its score
ScoreDocumentsKeepingAll(b, query, top_k) ==
    LET query_tokens == _tokenize(query)
        hits == [i \in 1..Len(b.documents) |->
                    KeywordHit(b.documents[i], _bm25_score(b, query_tokens, b.documents[i]))]
    IN  IF b.documents = <<>> \/ query_tokens = <<>> THEN <<>>
        ELSE Truncate(RankByScore(<<>>, hits), top_k)

\* the scoring loop of search() and what follows it (lines 98-132); the
\* vocabulary check of lines 95-96 is SearchVocab
ScoreDocuments(b, query, top_k) ==
    LET query_tokens == _tokenize(query)
        hits == [i \in 1..Len(b.documents) |->
                    KeywordHit(b.documents[i], _bm25_score(b, query_tokens, b.documents[i]))]
    IN  IF b.documents = <<>> \/ query_tokens = <<>> THEN <<>>
        ELSE Truncate(RankByScore(<<>>, SelectSeq(hits, LAMBDA h : RPos(h.score))), top_k)

(***************************************************************************)
(* RetrievalCoordinator: HybridRetriever.search (hybrid_retrieval.py)      *)
(*                                                                         *)
(* Callers are threads of one process sharing one HybridRetriever; the     *)
(* vector store is a list of points [id, text, document_id, chunk_index].  *)
(***************************************************************************)
Threads == {1, 2}

MaxPoints == 3

\* the scroll page size (the code asks for 100 points a page; the model's
\* corpus is scaled down with it)
batch_size == 2

top_k_dense == 10

top_k_keyword == 10

final_top_k == 5

\* the points ingestion can add to the store, in the order it adds them
AllPoints ==
    << [id |-> "p1", text |-> <<"Cats", "and", "dogs">>, document_id |-> "d1", chunk_index |-> 0,
        title |-> "Pets", page |-> 1, section |-> "Intro"],
       [id |-> "p2", text |-> <<"dogs", "only">>, document_id |-> "d1", chunk_index |-> 1,
        title |-> "Pets", page |-> 2, section |-> ""],
       [id |-> "p3", text |-> <<>>, document_id |-> "d2", chunk_index |-> 0,
        title |-> "Birds", page |-> 7, section |-> "Night"],
       [id |-> "p4", text |-> <<"cats", "!">>, document_id |-> "d1", chunk_index |-> 0,
        title |-> "Pets", page |-> 1, section |-> "Intro"] >>

Queries == {<<"Cats">>, <<"only", "?">>}

\* the similarity the store reports for a point: an external capability
Similarity(query, p) ==
    IF p.text = <<>> THEN Rat(-1, 2)
    ELSE IF \E i \in 1..Len(_tokenize(query)) :
              \E j \in 1..Len(_tokenize(p.text)) : _tokenize(query)[i] = _tokenize(p.text)[j]
         THEN Rat(1, 2)
    ELSE RZero

DenseHit(query, p) ==
    [document_id |-> p.document_id, chunk_index |-> p.chunk_index,
     score |-> Similarity(query, p), payload |-> p.text]

\* _dense_search without filters: the top_k points by similarity
_dense_search(points, query, top_k) ==
    Truncate(RankByScore(<<>>, [i \in 1..Len(points) |-> DenseHit(query, points[i])]), top_k)

\* a check that looks at the flag only, so that use_cache=False never rebuilds
NeedsRebuildIgnoringCache(built, use_cache) == ~built

\* a check that looks at use_cache only, so that a first cached call is served
\* from the empty index
NeedsRebuildOnlyUncached(built, use_cache) == ~use_cache

\* if not self._index_built or not use_cache
NeedsRebuild(built, use_cache) == ~built \/ ~use_cache

\* a scroll whose next page starts on the last point of this one
ScrollPageOverlapping(points, offset, limit) ==
    [points |-> SubSeq(points, offset, Min(Len(points), offset + limit - 1)),
     next |-> IF offset + limit <= Len(points) THEN offset + limit - 1 ELSE 0]

\* self._qdrant.scroll(limit, offset): the page and the next offset (0: None)
ScrollPage(points, offset, limit) ==
    [points |-> SubSeq(points, offset, Min(Len(points), offset + limit - 1)),
     next |-> IF offset + limit <= Len(points) THEN offset + limit ELSE 0]

PointMetadata(p) == [document_id |-> p.document_id, chunk_index |-> p.chunk_index]

\* the body of "for point in points" (lines 188-203)
IndexPoint(b, p) ==
    IF p.text # <<>> THEN add_document(b, p.id, p.text, PointMetadata(p)) ELSE b

\* SearchResult(...) for r in fused_results[:final_top_k]
FinalResults(list) ==
    [i \in 1..Min(Len(list), final_top_k) |->
        [document_id |-> list[i].document_id, chunk_index |-> list[i].chunk_index,
         payload |-> list[i].payload, score |-> list[i].fused_score,
         dense_score |-> list[i].dense_score, keyword_score |-> list[i].keyword_score]]

NoCall == [query |-> <<>>, use_cache |-> TRUE]

NoScan == [offset |-> 0, pending |-> <<>>, next |-> 0]

NoOut == [dense |-> <<>>, keyword |-> <<>>, results |-> <<>>, error |-> "none"]

\* what is recorded about a call: whether it was due a rebuild when it
\* decided, whether it scrolled the store, whether it was issued before any
\* rebuild had begun, and the store size when it was issued
NoObs == [due |-> FALSE, scrolled |-> FALSE, cold |-> FALSE, stored |-> 0]

NoHistory ==
    [rebuilt_once |-> FALSE, cleared_since |-> FALSE,
     rebuild_started |-> FALSE, last_complete |-> EmptyIndex]

RetrieverIdle ==
    /\ store = <<>>
    /\ bm25 = EmptyIndex
    /\ index_built = FALSE
    /\ tpc = [t \in Threads |-> "idle"]
    /\ call = [t \in Threads |-> NoCall]
    /\ scan = [t \in Threads |-> NoScan]
    /\ out = [t \in Threads |-> NoOut]
    /\ obs = [t \in Threads |-> NoObs]
    /\ hist = NoHistory

\* a document is ingested: a point is added to the store
Ingest ==
    /\ Len(store) < MaxPoints
    /\ store' = Append(store, AllPoints[Len(store) + 1])
    /\ UNCHANGED <<bm25, index_built, tpc, call, scan, out, obs, hist>>
    /\ UNCHANGED <<fusion_vars, stream_vars, other_vars>>

\* search(query, filters=None, use_cache) is called; step 1, the dense search
SearchDense(t) ==
    /\ tpc[t] = "idle"
    /\ \E q \in Queries, uc \in BOOLEAN :
         /\ call' = [call EXCEPT ![t] = [query |-> q, use_cache |-> uc]]
         /\ out' = [out EXCEPT ![t].dense = _dense_search(store, q, top_k_dense)]
    /\ obs' = [obs EXCEPT ![t] = [NoObs EXCEPT !.cold = ~hist.rebuild_started,
                                               !.stored = Len(store)]]
    /\ tpc' = [tpc EXCEPT ![t] = "keyword"]
    /\ UNCHANGED <<store, bm25, index_built, scan, hist>>
    /\ UNCHANGED <<fusion_vars, stream_vars, other_vars>>

\* _keyword_search, line 160: rebuild or use the index as it is
KeywordSearch(t) ==
    /\ tpc[t] = "keyword"
    /\ tpc' = [tpc EXCEPT ![t] =
                  IF NeedsRebuild(index_built, call[t].use_cache) THEN "build" ELSE "vocab"]
    /\ obs' = [obs EXCEPT ![t].due =
                  ~call[t].use_cache \/ ~hist.rebuilt_once \/ hist.cleared_since]
    /\ UNCHANGED <<store, bm25, index_built, call, scan, out, hist>>
    /\ UNCHANGED <<fusion_vars, stream_vars, other_vars>>

\* _build_keyword_index, line 168: self._bm25.clear()
BuildClear(t) ==
    /\ tpc[t] = "build"
    /\ bm25' = clear(bm25)
    /\ scan' = [scan EXCEPT ![t] = [NoScan EXCEPT !.offset = 1]]
    /\ hist' = [hist EXCEPT !.rebuild_started = TRUE]
    /\ tpc' = [tpc EXCEPT ![t] = "scroll"]
    /\ UNCHANGED <<store, index_built, call, out, obs>>
    /\ UNCHANGED <<fusion_vars, stream_vars, other_vars>>

\* lines 176-185: one page of the scroll; an empty page ends the scan
BuildScroll(t) ==
    /\ tpc[t] = "scroll"
    /\ LET page == ScrollPage(store, scan[t].offset, batch_size)
       IN  /\ scan' = [scan EXCEPT ![t].pending = page.points, ![t].next = page.next]
           /\ tpc' = [tpc EXCEPT ![t] = IF page.points = <<>> THEN "finish" ELSE "add"]
    /\ obs' = [obs EXCEPT ![t].scrolled = TRUE]
    /\ UNCHANGED <<store, bm25, index_built, call, out, hist>>
    /\ UNCHANGED <<fusion_vars, stream_vars, other_vars>>

\* lines 187-207: one point of the page; after the last one the next page is
\* asked for unless the store reported no next offset
BuildAdd(t) ==
    /\ tpc[t] = "add"
    /\ bm25' = IndexPoint(bm25, Head(scan[t].pending))
    /\ IF Len(scan[t].pending) > 1
       THEN /\ scan' = [scan EXCEPT ![t].pending = Tail(@)]
            /\ tpc' = tpc
       ELSE /\ scan' = [scan EXCEPT ![t] = [NoScan EXCEPT !.offset = scan[t].next]]
            /\ tpc' = [tpc EXCEPT ![t] = IF scan[t].next = 0 THEN "finish" ELSE "scroll"]
    /\ UNCHANGED <<store, index_built, call, out, obs, hist>>
    /\ UNCHANGED <<fusion_vars, stream_vars, other_vars>>

\* lines 209-210: build_vocab() and _index_built = True
BuildFinish(t) ==
    /\ tpc[t] = "finish"
    /\ bm25' = build_vocab(bm25)
    /\ index_built' = TRUE
    /\ hist' = [hist EXCEPT !.rebuilt_once = TRUE, !.cleared_since = FALSE,
                            !.last_complete = build_vocab(bm25)]
    /\ scan' = [scan EXCEPT ![t] = NoScan]
    /\ tpc' = [tpc EXCEPT ![t] = "vocab"]
    /\ UNCHANGED <<store, call, out, obs>>
    /\ UNCHANGED <<fusion_vars, stream_vars, other_vars>>

\* BM25Searcher.search, lines 95-96: build the vocabulary if it is stale
SearchVocab(t) ==
    /\ tpc[t] = "vocab"
    /\ bm25' = IF ~bm25.vocab_built THEN build_vocab(bm25) ELSE bm25
    /\ tpc' = [tpc EXCEPT ![t] = "score"]
    /\ UNCHANGED <<store, index_built, call, scan, out, obs, hist>>
    /\ UNCHANGED <<fusion_vars, stream_vars, other_vars>>

\* BM25Searcher.search, lines 98-132, then steps 3 and 4 of
\* HybridRetriever.search: fuse and return the top final_top_k; a division by
\* avg_doc_length = 0 raises out of search
SearchScore(t) ==
    /\ tpc[t] = "score"
    /\ IF ScoreRaises(bm25, _tokenize(call[t].query))
       THEN out' = [out EXCEPT ![t].error = "ZeroDivisionError"]
       ELSE LET kws == ScoreDocuments(bm25, call[t].query, top_k_keyword)
            IN  out' = [out EXCEPT
                           ![t].keyword = kws,
                           ![t].results = FinalResults(_fuse_results(settings, out[t].dense, kws))]
    /\ tpc' = [tpc EXCEPT ![t] = "done"]
    /\ UNCHANGED <<store, bm25, index_built, call, scan, obs, hist>>
    /\ UNCHANGED <<fusion_vars, stream_vars, other_vars>>

\* the caller has its result (or the exception)
SearchReturn(t) ==
    /\ tpc[t] = "done"
    /\ tpc' = [tpc EXCEPT ![t] = "idle"]
    /\ call' = [call EXCEPT ![t] = NoCall]
    /\ out' = [out EXCEPT ![t] = NoOut]
    /\ obs' = [obs EXCEPT ![t] = NoObs]
    /\ UNCHANGED <<store, bm25, index_built, scan, hist>>
    /\ UNCHANGED <<fusion_vars, stream_vars, other_vars>>

\* clear_index(), lines 322-325
DoClearIndex ==
    /\ bm25' = clear(bm25)
    /\ index_built' = FALSE
    /\ hist' = [hist EXCEPT !.cleared_since = TRUE, !.last_complete = EmptyIndex]
    /\ UNCHANGED <<store, tpc, call, scan, out, obs>>
    /\ UNCHANGED <<fusion_vars, stream_vars, other_vars>>

\* clear_index() called between searches
ClearIndex ==
    /\ \A t \in Threads : tpc[t] = "idle"
    /\ index_built \/ bm25 # EmptyIndex
    /\ DoClearIndex

\* clear_index() called by another thread while a search is running
ClearIndexDuringSearch ==
    /\ \E t \in Threads : tpc[t] # "idle"
    /\ DoClearIndex

SearchStep(t) ==
    \/ SearchDense(t)
    \/ KeywordSearch(t)
    \/ BuildClear(t)
    \/ BuildScroll(t)
    \/ BuildAdd(t)
    \/ BuildFinish(t)
    \/ SearchVocab(t)
    \/ SearchScore(t)
    \/ SearchReturn(t)

(***************************************************************************)
(* GenerationOrchestrator: RAGPipeline.arag_stream, LLMService.astream     *)
(*                                                                         *)
(* A Chunk is [text, title, page, section]; a stream item is               *)
(* [delta, citations, done] with citations = [none, list]: none = TRUE is  *)
(* Python's None, none = FALSE carries the list.                           *)
(***************************************************************************)
FallbackAnswer ==
    "I don't have enough information in the provided documents to answer this question."

ExcerptLen == 200

\* c.text[:200]
Excerpt(text) == SubSeq(text, 1, Min(Len(text), ExcerptLen))

\* citations numbered from 0
BuildCitationsZeroBased(cs) ==
    [i \in 1..Len(cs) |->
        [index |-> i - 1,
         document_title |-> cs[i].title,
         page |-> cs[i].page,
         section |-> cs[i].section,
         chunk_text |-> SubSeq(cs[i].text, 1, Min(Len(cs[i].text), ExcerptLen))]]

\* Citation(index=i + 1, ...) for i, c in enumerate(chunks)
BuildCitations(cs) ==
    [i \in 1..Len(cs) |->
        [index |-> i,
         document_title |-> cs[i].title,
         page |-> cs[i].page,
         section |-> cs[i].section,
         chunk_text |-> Excerpt(cs[i].text)]]

NoCitations == [none |-> TRUE, list |-> <<>>]

CitationList(list) == [none |-> FALSE, list |-> list]

\* the single item yielded when retrieval found nothing (lines 166-170)
FallbackItem == [delta |-> FallbackAnswer, citations |-> CitationList(<<>>), done |-> TRUE]

\* {"delta": token, "citations": None, "done": False}
TokenItem(token) == [delta |-> token, citations |-> NoCitations, done |-> FALSE]

\* a terminal item that leaves the citations out
TerminalItemNoCitations(cits) == [delta |-> "", citations |-> NoCitations, done |-> TRUE]

\* a terminal item whose citation list misses the last retrieved chunk
TerminalItemShortList(cits) ==
    [delta |-> "", citations |-> CitationList(SubSeq(cits, 1, Len(cits) - 1)), done |-> TRUE]

\* {"delta": "", "citations": citations, "done": True}
TerminalItem(cits) == [delta |-> "", citations |-> CitationList(cits), done |-> TRUE]

MaxChunks == 2

MaxTokens == 3

\* what the store can hand to retrieve(): chunks with their payload
Corpus ==
    {[text |-> <<"c", "a", "t", "s">>, title |-> "Pets", page |-> 1, section |-> "Intro"],
     [text |-> <<"d", "o", "g", "s">>, title |-> "Pets", page |-> 2, section |-> ""],
     [text |-> <<"o", "w", "l">>, title |-> "Birds", page |-> 7, section |-> "Night"]}

\* the contents of the chunks the generation client streams; astream skips
\* the empty ones
Contents == {"", "Cats", " purr"}

\* ranked lists of up to n distinct chunks
Retrievals(n) ==
    {r \in SeqsUpTo(Corpus, n) : \A i, j \in 1..Len(r) : r[i] = r[j] => i = j}

StreamIdle ==
    /\ spc = "idle"
    /\ chunks = <<>>
    /\ citations = <<>>
    /\ llm_stream = <<>>
    /\ emitted = <<>>

\* lines 164-185: retrieve, then either the fallback item and return, or the
\* prompt and the citation list; the generation call is opened by the first
\* iteration of the async for
StreamStart ==
    /\ spc = "idle"
    /\ \E r \in Retrievals(MaxChunks) :
         /\ chunks' = r
         /\ IF r = <<>>
            THEN /\ emitted' = Append(emitted, FallbackItem)
                 /\ spc' = "done"
                 /\ citations' = <<>>
                 /\ llm_stream' = <<>>
            ELSE /\ citations' = BuildCitations(r)
                 /\ llm_stream' \in SeqsUpTo(Contents, MaxTokens)
                 /\ spc' = "streaming"
                 /\ emitted' = emitted
    /\ UNCHANGED <<fusion_vars, retriever_vars, other_vars>>

\* one chunk of the generation stream: astream yields it unless its content
\* is empty (llm_service.py 77-79), arag_stream wraps it (line 188)
StreamToken ==
    /\ spc = "streaming"
    /\ llm_stream # <<>>
    /\ llm_stream' = Tail(llm_stream)
    /\ emitted' = IF Head(llm_stream) # ""
                  THEN Append(emitted, TokenItem(Head(llm_stream)))
                  ELSE emitted
    /\ UNCHANGED <<spc, chunks, citations>>
    /\ UNCHANGED <<fusion_vars, retriever_vars, other_vars>>

\* the generation stream is exhausted: line 190
StreamEnd ==
    /\ spc = "streaming"
    /\ llm_stream = <<>>
    /\ emitted' = Append(emitted, TerminalItem(citations))
    /\ spc' = "done"
    /\ UNCHANGED <<chunks, citations, llm_stream>>
    /\ UNCHANGED <<fusion_vars, retriever_vars, other_vars>>

\* the consumer stops iterating (the client went away): the generator is
\* closed where it is suspended and yields nothing more (chat.py 31)
StreamCancel ==
    /\ spc = "streaming"
    /\ spc' = "cancelled"
    /\ UNCHANGED <<chunks, citations, llm_stream, emitted>>
    /\ UNCHANGED <<fusion_vars, retriever_vars, other_vars>>

StreamInit ==
    /\ StreamIdle
    /\ RetrieverIdle
    /\ FusionIdle
    /\ settings = DefaultSettings
    /\ OtherIdle

StreamNext == StreamStart \/ StreamToken \/ StreamEnd \/ StreamCancel

SpecStream == StreamInit /\ [][StreamNext]_vars

(***************************************************************************)
(* Fusion runs: the inputs of one _fuse_results call are drawn in Init     *)
(***************************************************************************)
MaxDense == 2

MaxKeyword == 2

Keys == {<<"d1", 0>>, <<"d1", 1>>, <<"d2", 0>>}

\* cosine similarities as the store returns them: negative, zero, positive
DenseScores == {Rat(-1, 2), RZero, Rat(1, 2), ROne}

\* BM25Searcher.search keeps only scores > 0
KeywordScores == {ROne, RInt(2)}

ScaleFactors == {RInt(3), Rat(1, 2)}

NonIncreasing(scores) ==
    \A i \in 1..(Len(scores) - 1) : RLe(scores[i + 1], scores[i])

\* the store (query_points) and BM25Searcher.search both return ranked lists
RankedScores(S, n) == {s \in SeqsUpTo(S, n) : NonIncreasing(s)}

DenseList(keys, scores) ==
    [i \in 1..Len(keys) |->
        [document_id |-> keys[i][1], chunk_index |-> keys[i][2], score |-> scores[i],
         payload |-> <<"dense", i>>]]

KeywordList(keys, scores) ==
    [i \in 1..Len(keys) |->
        [document_id |-> keys[i][1], chunk_index |-> keys[i][2], score |-> scores[i],
         chunk_id |-> <<"point", i>>, payload |-> <<"keyword", i>>]]

FusionInit ==
    /\ settings \in SettingsChoices
    /\ \E ds \in RankedScores(DenseScores, MaxDense) :
         \E dk \in [1..Len(ds) -> Keys] : dense_results = DenseList(dk, ds)
    /\ \E ks \in RankedScores(KeywordScores, MaxKeyword) :
         \E kk \in [1..Len(ks) -> Keys] : keyword_results = KeywordList(kk, ks)
    /\ fused = <<>>
    /\ fused_before = <<>>
    /\ fpc = "input"
    /\ StreamIdle
    /\ RetrieverIdle
    /\ OtherIdle

\* fused_results = self._fuse_results(dense_results, keyword_results)
Fuse ==
    /\ fpc = "input"
    /\ fused' = _fuse_results(settings, dense_results, keyword_results)
    /\ fpc' = "fused"
    /\ UNCHANGED <<settings, dense_results, keyword_results, fused_before>>
    /\ UNCHANGED <<stream_vars, retriever_vars, other_vars>>

ScaleDense(list, c) ==
    [i \in 1..Len(list) |-> [list[i] EXCEPT !.score = RMul(c, list[i].score)]]

\* the same call again with every dense score multiplied by c > 0
FuseScaled ==
    /\ fpc = "fused"
    /\ settings.fusion_method = "weighted"
    /\ \E c \in ScaleFactors :
         /\ dense_results' = ScaleDense(dense_results, c)
         /\ fused' = _fuse_results(settings, ScaleDense(dense_results, c), keyword_results)
    /\ fused_before' = fused
    /\ fpc' = "scaled"
    /\ UNCHANGED <<settings, keyword_results>>
    /\ UNCHANGED <<stream_vars, retriever_vars, other_vars>>

FusionNext == Fuse \/ FuseScaled

SpecFusion == FusionInit /\ [][FusionNext]_vars

(***************************************************************************)
(* Searches on one HybridRetriever: one caller, or two threads             *)
(***************************************************************************)
RetrieverInit ==
    /\ RetrieverIdle
    /\ StreamIdle
    /\ FusionIdle
    /\ settings \in MethodChoices
    /\ OtherIdle

\* one caller: calls follow one another
RetrieverNext == Ingest \/ ClearIndex \/ SearchStep(1)

SpecRetriever == RetrieverInit /\ [][RetrieverNext]_vars

StoredPoints == 2

\* two threads share the retriever; the store holds its points from the start
ConcurrentInit ==
    /\ store = SubSeq(AllPoints, 1, StoredPoints)
    /\ bm25 = EmptyIndex
    /\ index_built = FALSE
    /\ tpc = [t \in Threads |-> "idle"]
    /\ call = [t \in Threads |-> NoCall]
    /\ scan = [t \in Threads |-> NoScan]
    /\ out = [t \in Threads |-> NoOut]
    /\ obs = [t \in Threads |-> NoObs]
    /\ hist = NoHistory
    /\ StreamIdle
    /\ FusionIdle
    /\ settings = DefaultSettings
    /\ OtherIdle

ConcurrentNext ==
    \/ ClearIndex
    \/ ClearIndexDuringSearch
    \/ \E t \in Threads : SearchStep(t)

SpecConcurrent == ConcurrentInit /\ [][ConcurrentNext]_vars

(***************************************************************************)
(* Properties of fusion                                                    *)
(***************************************************************************)
\* the positions of a key in a source list
Occurrences(list, key) == {i \in 1..Len(list) : KeyOf(list[i]) = key}

SetMax(S) == CHOOSE x \in S : \A y \in S : y <= x

SetMin(S) == CHOOSE x \in S : \A y \in S : x <= y

FusionDone == fpc \in {"fused", "scaled"}

\* C6: the fused list holds at most one entry per (document_id, chunk_index)
\* key, whatever duplicates the dense and keyword lists contain, in both modes.
C6_FusedKeysUnique ==
    FusionDone =>
        \A i, j \in 1..Len(fused) : KeyOf(fused[i]) = KeyOf(fused[j]) => i = j

\* a key occurs twice in the dense list and again in the keyword list
C6_Witness ==
    /\ fpc = "fused"
    /\ Len(dense_results) = 2
    /\ KeyOf(dense_results[1]) = KeyOf(dense_results[2])
    /\ Occurrences(keyword_results, KeyOf(dense_results[1])) # {}
    /\ Len(fused) < Len(dense_results) + Len(keyword_results)

\* C7: in RRF mode an entry found in both lists scores
\* 1/(k+rankDense) + 1/(k+rankKeyword), more than either term alone; an entry
\* found in one list scores that list's term only (the rank of a key that
\* occurs several times in a list is that of its last occurrence); for k = 60,
\* dense [(d1,0)] and keyword [(d1,0),(d2,0)] the result is (d1,0) with 2/61
\* ahead of (d2,0) with 1/62.
C7_RrfScores ==
    (fpc = "fused" /\ settings.fusion_method = "rrf" /\ settings.rrf_k > 0) =>
        /\ \A i \in 1..Len(fused) :
             LET D == Occurrences(dense_results, KeyOf(fused[i]))
                 K == Occurrences(keyword_results, KeyOf(fused[i]))
                 k == settings.rrf_k
                 s == fused[i].fused_score
             IN  /\ (D # {} /\ K # {}) =>
                       /\ s.n * (k + SetMax(D)) * (k + SetMax(K))
                            = s.d * ((k + SetMax(D)) + (k + SetMax(K)))
                       /\ RLt(Rat(1, k + SetMax(D)), s)
                       /\ RLt(Rat(1, k + SetMax(K)), s)
                 /\ (D # {} /\ K = {}) => s.n * (k + SetMax(D)) = s.d
                 /\ (D = {} /\ K # {}) => s.n * (k + SetMax(K)) = s.d
        /\ ( /\ settings.rrf_k = 60
             /\ [i \in 1..Len(dense_results) |-> KeyOf(dense_results[i])] = << <<"d1", 0>> >>
             /\ [i \in 1..Len(keyword_results) |-> KeyOf(keyword_results[i])]
                    = << <<"d1", 0>>, <<"d2", 0>> >> )
           => /\ Len(fused) = 2
              /\ KeyOf(fused[1]) = <<"d1", 0>> /\ fused[1].fused_score = [n |-> 2, d |-> 61]
              /\ KeyOf(fused[2]) = <<"d2", 0>> /\ fused[2].fused_score = [n |-> 1, d |-> 62]

\* the scenario of the claim has been fused
C7_Witness ==
    /\ fpc = "fused"
    /\ settings.fusion_method = "rrf"
    /\ settings.rrf_k = 60
    /\ [i \in 1..Len(dense_results) |-> KeyOf(dense_results[i])] = << <<"d1", 0>> >>
    /\ [i \in 1..Len(keyword_results) |-> KeyOf(keyword_results[i])]
           = << <<"d1", 0>>, <<"d2", 0>> >>
    /\ Len(fused) = 2

\* C8 as stated: every FusionResult has a non-zero dense_score or a non-zero
\* keyword_score.
C8_SomeScoreNonZero ==
    FusionDone =>
        \A i \in 1..Len(fused) :
            fused[i].dense_score # RZero \/ fused[i].keyword_score # RZero

\* C8 as amended: every FusionResult's key occurs in a source list; its
\* keyword_score is > 0 exactly when the key occurs in the keyword list, its
\* dense_score is the score of the key's last dense occurrence (0 when there is
\* none), so both scores are zero exactly for a dense-only entry whose store
\* score is 0.
C8_ZeroOnlyForZeroDenseHit ==
    FusionDone =>
        \A i \in 1..Len(fused) :
            LET D == Occurrences(dense_results, KeyOf(fused[i]))
                K == Occurrences(keyword_results, KeyOf(fused[i]))
            IN  /\ D # {} \/ K # {}
                /\ RPos(fused[i].keyword_score) <=> K # {}
                /\ K = {} => fused[i].keyword_score = RZero
                /\ fused[i].dense_score =
                       IF D = {} THEN RZero ELSE dense_results[SetMax(D)].score
                /\ (fused[i].dense_score = RZero /\ fused[i].keyword_score = RZero)
                       <=> (K = {} /\ D # {} /\ dense_results[SetMax(D)].score = RZero)

\* a dense-only hit with similarity 0 sits next to a keyword hit
C8_Witness ==
    /\ fpc = "fused"
    /\ \E i \in 1..Len(fused) :
         fused[i].dense_score = RZero /\ fused[i].keyword_score = RZero
    /\ \E i \in 1..Len(fused) : RPos(fused[i].keyword_score)

InsertionOrder(key) ==
    IF Occurrences(dense_results, key) # {}
    THEN SetMin(Occurrences(dense_results, key))
    ELSE Len(dense_results) + SetMin(Occurrences(keyword_results, key))

\* C10: the fused list is in non-increasing order of fused score, and entries
\* of equal fused score keep the order in which their keys entered the merge
\* map (dense entries in dense order, then keyword-only entries).
C10_SortedStable ==
    FusionDone =>
        \A i, j \in 1..Len(fused) :
            i < j =>
                /\ RLe(fused[j].fused_score, fused[i].fused_score)
                /\ fused[i].fused_score = fused[j].fused_score
                       => InsertionOrder(KeyOf(fused[i])) < InsertionOrder(KeyOf(fused[j]))

\* a tie between two entries, and a third entry that the sort moved ahead of
\* an entry inserted before it
C10_Witness ==
    /\ fpc = "fused"
    /\ \E i, j \in 1..Len(fused) :
         i < j /\ fused[i].fused_score = fused[j].fused_score
    /\ \E i, j \in 1..Len(fused) :
         i < j /\ InsertionOrder(KeyOf(fused[j])) < InsertionOrder(KeyOf(fused[i]))

(***************************************************************************)
(* Properties of the streamed answer                                       *)
(***************************************************************************)
DoneItems == {i \in 1..Len(emitted) : emitted[i].done}

\* C1: a completed arag_stream run has emitted exactly one item with
\* done = true; it is the last item and its citation list is not null; every
\* item before it has done = false and citations = null. Before completion no
\* item with done = true has been emitted.
C1_OneTerminalItemLast ==
    /\ spc = "done" =>
         /\ emitted # <<>>
         /\ DoneItems = {Len(emitted)}
         /\ ~emitted[Len(emitted)].citations.none
         /\ \A i \in 1..(Len(emitted) - 1) :
              ~emitted[i].done /\ emitted[i].citations.none
    /\ spc # "done" => DoneItems = {}

\* three token increments followed by the terminal item
C1_Witness ==
    /\ spc = "done"
    /\ Len(emitted) = 4
    /\ emitted[4].done

\* C2 as stated: in every completed run, the run with zero retrieved chunks
\* included, the terminal item has delta = "" and carries the full citation
\* list.
C2_TerminalDeltaEmpty ==
    spc = "done" =>
        /\ emitted[Len(emitted)].delta = ""
        /\ Len(emitted[Len(emitted)].citations.list) = Len(chunks)

\* C2 as amended: when retrieval returned at least one chunk the terminal item
\* has delta = "" and carries one citation per retrieved chunk, and text is
\* carried by the non-terminal items only; when retrieval returned no chunk the
\* only item is the terminal one, whose delta is the fixed fallback answer and
\* whose citation list is empty.
C2_TerminalItemContent ==
    spc = "done" =>
        LET last == emitted[Len(emitted)]
        IN  IF chunks = <<>>
            THEN /\ Len(emitted) = 1
                 /\ last.delta = FallbackAnswer
                 /\ last.done
                 /\ ~last.citations.none /\ last.citations.list = <<>>
            ELSE /\ last.delta = ""
                 /\ Len(last.citations.list) = Len(chunks)
                 /\ \A i \in 1..Len(chunks) :
                      /\ last.citations.list[i].index = i
                      /\ last.citations.list[i].document_title = chunks[i].title
                      /\ last.citations.list[i].page = chunks[i].page
                 /\ \A i \in 1..(Len(emitted) - 1) : emitted[i].delta # ""

\* two chunks were retrieved and two tokens streamed before the terminal item
C2_Witness ==
    /\ spc = "done"
    /\ Len(chunks) = 2
    /\ Len(emitted) = 3
    /\ emitted[3].delta = ""

(***************************************************************************)
(* Properties of the keyword index cache                                   *)
(***************************************************************************)
Searching(t) == tpc[t] \in {"vocab", "score"}

Rebuilding(t) == tpc[t] \in {"build", "scroll", "add", "finish"}

\* C3: whenever a search call is about to run BM25Searcher.search, the index
\* it reads is the complete result of the last finished rebuild (or the empty
\* index left by clear_index()), never an index another call has cleared or
\* partly repopulated.
C3_ScoringReadsCompleteIndex ==
    \A t \in Threads : Searching(t) => bm25 = hist.last_complete

\* C4: a search call scrolls the vector store (rebuilds the keyword index) if
\* and only if use_cache is false, or no rebuild has completed yet, or
\* clear_index() was called since the last completed rebuild; _index_built is
\* true exactly when a rebuild has completed and no clear_index() followed it.
C4_RebuildIffDue ==
    /\ index_built <=> (hist.rebuilt_once /\ ~hist.cleared_since)
    /\ \A t \in Threads :
         /\ Rebuilding(t) => obs[t].due
         /\ (Searching(t) /\ ~obs[t].due) => ~obs[t].scrolled
         /\ tpc[t] = "done" => (obs[t].scrolled <=> obs[t].due)

\* a cached search served from the index an earlier call built, without a scroll
C4_Witness ==
    /\ tpc[1] = "done"
    /\ call[1].use_cache
    /\ hist.rebuilt_once
    /\ ~obs[1].scrolled
    /\ out[1].keyword # <<>>

\* a query token occurs in the text of the point
Matches(query, p) ==
    \E i \in 1..Len(_tokenize(query)) :
        \E j \in 1..Len(_tokenize(p.text)) : _tokenize(query)[i] = _tokenize(p.text)[j]

MaxAdds == 3

ChunkIds == {"k1", "k2", "k3"}

KeywordTexts == {<<"Cats", "and", "dogs">>, <<"dogs", "only">>, <<"?">>}

\* the metadata the chunks are added with: document_id and chunk_index
ChunkMetadata(id) ==
    CASE id = "k1" -> [document_id |-> "d1", chunk_index |-> 0]
      [] id = "k2" -> [document_id |-> "d1", chunk_index |-> 1]
      [] OTHER -> [document_id |-> "d2", chunk_index |-> 0]

KeywordQueries == {<<"Cats">>, <<"dogs", "cats">>, <<"?">>}

KeywordTopKs == {2, 10}

KeywordInit ==
    /\ RetrieverIdle
    /\ StreamIdle
    /\ FusionIdle
    /\ OtherIdle
    /\ settings = DefaultSettings

\* add_document(chunk_id, text, metadata); a chunk_id can come again
KeywordAdd ==
    /\ kadds < MaxAdds
    /\ \E id \in ChunkIds, text \in KeywordTexts :
         bm25' = add_document(bm25, id, text, ChunkMetadata(id))
    /\ kadds' = kadds + 1
    /\ kcall' = NoKeywordCall
    /\ kout' = <<>>
    /\ UNCHANGED <<store, index_built, tpc, call, scan, out, obs, hist>>
    /\ UNCHANGED <<fusion_vars, stream_vars, answer_vars, filter_vars, route_vars, repeat_vars>>

\* build_vocab() called by the owner of the index
KeywordBuild ==
    /\ bm25' = build_vocab(bm25)
    /\ kcall' = [NoKeywordCall EXCEPT
                    !.op = IF kcall.op \in {"build", "build_again"}
                           THEN "build_again" ELSE "build"]
    /\ kout' = <<>>
    /\ UNCHANGED <<kadds, store, index_built, tpc, call, scan, out, obs, hist>>
    /\ UNCHANGED <<fusion_vars, stream_vars, answer_vars, filter_vars, route_vars, repeat_vars>>

\* search(query, top_k), lines 93-132
KeywordSearchAlone ==
    /\ \E q \in KeywordQueries, k \in KeywordTopKs :
         LET b == IF ~bm25.vocab_built THEN build_vocab(bm25) ELSE bm25
             raises == ScoreRaises(b, _tokenize(q))
         IN  /\ bm25' = b
             /\ kcall' = [query |-> q, top_k |-> k, searched |-> TRUE,
                          error |-> IF raises THEN "ZeroDivisionError" ELSE "none",
                          op |-> "search", rebuilt |-> b # bm25]
             /\ kout' = IF raises THEN <<>> ELSE ScoreDocuments(b, q, k)
    /\ UNCHANGED <<kadds, store, index_built, tpc, call, scan, out, obs, hist>>
    /\ UNCHANGED <<fusion_vars, stream_vars, answer_vars, filter_vars, route_vars, repeat_vars>>

\* clear()
KeywordClear ==
    /\ bm25 # EmptyIndex
    /\ bm25' = clear(bm25)
    /\ kcall' = NoKeywordCall
    /\ kout' = <<>>
    /\ UNCHANGED <<kadds, store, index_built, tpc, call, scan, out, obs, hist>>
    /\ UNCHANGED <<fusion_vars, stream_vars, answer_vars, filter_vars, route_vars, repeat_vars>>

KeywordNext == KeywordAdd \/ KeywordBuild \/ KeywordSearchAlone \/ KeywordClear

SpecKeyword == KeywordInit /\ [][KeywordNext]_vars

(***************************************************************************)
(* Properties of the keyword search                                        *)
(***************************************************************************)
\* the scores search() computed over the index it left behind
ScoreOf(i) == _bm25_score(bm25, _tokenize(kcall.query), bm25.documents[i])

Returned(i) == \E j \in 1..Len(kout) : kout[j].chunk_id = bm25.documents[i].chunk_id

PositiveDocs == {i \in 1..Len(bm25.documents) : RPos(ScoreOf(i))}

\* C11: a search over a non-empty corpus with a query of at least one token
\* returns at most top_k results, the best-scored ones, in non-increasing score
\* order, and results of equal score keep the order in which their chunks were
\* first added.
C11_KeywordRanking ==
    (kcall.searched /\ bm25.documents # <<>> /\ _tokenize(kcall.query) # <<>>) =>
        /\ kcall.error = "none"
        /\ Len(kout) = Min(kcall.top_k, Cardinality(PositiveDocs))
        /\ \A j \in 1..Len(kout) :
             \E i \in PositiveDocs :
                /\ kout[j].chunk_id = bm25.documents[i].chunk_id
                /\ kout[j].score = ScoreOf(i)
        /\ \A j1, j2 \in 1..Len(kout) :
             j1 < j2 =>
                /\ RLe(kout[j2].score, kout[j1].score)
                /\ kout[j1].score = kout[j2].score =>
                      DocIndex(bm25.documents, kout[j1].chunk_id)
                          < DocIndex(bm25.documents, kout[j2].chunk_id)
        /\ \A i \in PositiveDocs :
             ~Returned(i) => \A j \in 1..Len(kout) : RLe(ScoreOf(i), kout[j].score)

\* three chunks tie, the search is cut to the first two of them
C11_Witness ==
    /\ kcall.searched
    /\ kcall.top_k = 2
    /\ Cardinality(PositiveDocs) = 3
    /\ Len(kout) = 2
    /\ kout[1].score = kout[2].score
    /\ kout[1].chunk_id = bm25.documents[1].chunk_id

\* the stored documents that contain the term
DocsContaining(term) ==
    Cardinality({i \in 1..Len(bm25.documents) : bm25.documents[i].term_freq[term] > 0})

\* (N - df + 0.5) / (df + 0.5) + 1.0, exactly
IdfArgument(total_docs, df) ==
    RAdd(Rat(2 * total_docs - 2 * df + 1, 2 * df + 1), ROne)

\* C20 as stated: with N the number of stored documents and df the number of
\* them that contain the term, idf is negative once the term is in more than
\* half of the corpus.
C20_CommonTermIdfNegative ==
    bm25.vocab_built =>
        \A term \in Terms :
            (DocsContaining(term) > 0 /\ 2 * DocsContaining(term) > Len(bm25.documents)) =>
                RLt(Idf(Len(bm25.documents), DocsContaining(term)), RZero)

\* C20: idf = ln((N + 1) / (df + 0.5)) is positive whenever df <= N, so for
\* every term whose df counts stored documents, however common it is; it is
\* negative exactly when the df the index keeps exceeds N, which takes a
\* chunk_id added more than once.  A term's contribution has the sign of its
\* idf and is added unclamped, and search returns only totals above zero.
C20_IdfSign ==
    bm25.vocab_built =>
        /\ bm25.total_docs = Len(bm25.documents)
        /\ \A term \in Terms :
             LET N == bm25.total_docs
                 df == bm25.term_doc_freq[term]
             IN  df > 0 =>
                    /\ RPos(Idf(N, df)) <=> RLt(ROne, IdfArgument(N, df))
                    /\ RLt(Idf(N, df), RZero) <=> RLt(IdfArgument(N, df), ROne)
                    /\ df <= N => RPos(Idf(N, df))
                    /\ RLt(Idf(N, df), RZero) <=> df > N
                    /\ DocsContaining(term) <= df
                    /\ df = DocsContaining(term) => RPos(Idf(N, df))
                    /\ \A i \in 1..Len(bm25.documents) :
                         LET doc == bm25.documents[i]
                             one == _bm25_score(bm25, <<term>>, doc)
                         IN  /\ doc.term_freq[term] > 0 =>
                                   /\ RPos(one) <=> RPos(Idf(N, df))
                                   /\ RLt(one, RZero) <=> RLt(Idf(N, df), RZero)
                             /\ _bm25_score(bm25, _tokenize(kcall.query) \o <<term>>, doc)
                                   = RAdd(_bm25_score(bm25, _tokenize(kcall.query), doc), one)
        /\ kcall.searched => \A j \in 1..Len(kout) : RPos(kout[j].score)

\* a query term that every one of two stored documents contains is scored
C20_Witness ==
    /\ kcall.searched
    /\ Len(bm25.documents) = 2
    /\ Len(kout) = 2
    /\ \E i \in 1..Len(_tokenize(kcall.query)) :
         LET term == _tokenize(kcall.query)[i]
         IN  DocsContaining(term) = 2 /\ bm25.term_doc_freq[term] = 2


\* a search step whose query has no token
EmptyQuerySearch == kcall'.op = "search" /\ _tokenize(kcall'.query) = <<>>

\* C21 as stated: a search with a query that has no token returns the empty
\* list and leaves the index, vocab_built, total_docs and avg_doc_length
\* included, as it was
C21_EmptyQueryLeavesIndex ==
    [][EmptyQuerySearch => (kout' = <<>> /\ bm25' = bm25)]_vars

\* C21, amended: a search with a query that has no token returns the empty
\* list without an error and leaves the entries and the document frequencies
\* alone; it leaves the statistics alone when the vocabulary is built or the
\* corpus is empty, and otherwise it first builds the vocabulary, so that
\* vocab_built, total_docs and avg_doc_length are those of the present entries
C21_EmptyQuerySearch ==
    [][EmptyQuerySearch =>
         /\ kout' = <<>>
         /\ kcall'.error = "none"
         /\ bm25'.documents = bm25.documents
         /\ bm25'.term_doc_freq = bm25.term_doc_freq
         /\ (bm25.vocab_built \/ bm25.documents = <<>>) => (bm25' = bm25 /\ ~kcall'.rebuilt)
         /\ (~bm25.vocab_built /\ bm25.documents # <<>>) =>
               /\ kcall'.rebuilt
               /\ bm25'.vocab_built
               /\ bm25'.total_docs = Len(bm25.documents)
               /\ bm25'.avg_doc_length
                     = Rat(SumLengths(bm25.documents), Len(bm25.documents))]_vars

\* a search with a query that has no token has built the vocabulary of two
\* entries
C21_Witness ==
    /\ kcall.op = "search"
    /\ _tokenize(kcall.query) = <<>>
    /\ kcall.rebuilt
    /\ kout = <<>>
    /\ bm25.vocab_built
    /\ bm25.total_docs = 2

\* C22: a build_vocab() that directly follows a build_vocab() changes nothing
\* of the index, whether the corpus is empty or not
C22_BuildVocabIdempotent ==
    [][kcall'.op = "build_again" => bm25' = bm25]_vars

\* build_vocab() has run twice in a row over two entries
C22_Witness ==
    /\ kcall.op = "build_again"
    /\ bm25.vocab_built
    /\ Len(bm25.documents) = 2
    /\ bm25.total_docs = 2

\* the corpus's document frequencies count its entries
CountsEntries == \A t \in Terms : bm25.term_doc_freq[t] = DocsContaining(t)

\* the corpus {(d1,0): "cats and dogs", (d1,1): "dogs only"}
ScenarioCorpus ==
    /\ Len(bm25.documents) = 2
    /\ \E i, j \in 1..2 :
         /\ bm25.documents[i].metadata = [document_id |-> "d1", chunk_index |-> 0]
         /\ bm25.documents[i].text = <<"Cats", "and", "dogs">>
         /\ bm25.documents[j].metadata = [document_id |-> "d1", chunk_index |-> 1]
         /\ bm25.documents[j].text = <<"dogs", "only">>
    /\ CountsEntries

\* C23: every result of a search is a stored document that contains a token
\* of the query, with the score the index gives it, and that score is above
\* zero; over the corpus of the scenario the query "cats" returns (d1,0) and
\* nothing else
C23_OnlyPositiveMatches ==
    (kcall.searched /\ kcall.error = "none") =>
        /\ \A j \in 1..Len(kout) :
             /\ RPos(kout[j].score)
             /\ \E i \in 1..Len(bm25.documents) :
                  /\ kout[j].chunk_id = bm25.documents[i].chunk_id
                  /\ kout[j].score = ScoreOf(i)
                  /\ \E n \in 1..Len(_tokenize(kcall.query)) :
                       bm25.documents[i].term_freq[_tokenize(kcall.query)[n]] > 0
        /\ \A i \in 1..Len(bm25.documents) :
             (~RPos(ScoreOf(i)) /\ _tokenize(kcall.query) # <<>>) => ~Returned(i)
        /\ (ScenarioCorpus /\ kcall.query = <<"Cats">>) =>
              /\ Len(kout) = 1
              /\ kout[1].document_id = "d1"
              /\ kout[1].chunk_index = 0

\* the scenario: the query "cats" over the two chunks has returned (d1,0)
C23_Witness ==
    /\ kcall.searched
    /\ ScenarioCorpus
    /\ kcall.query = <<"Cats">>
    /\ Len(kout) = 1
    /\ kout[1].chunk_id = "k1"
    /\ RPos(kout[1].score)

\* C26: the document frequency of every term is the number of stored entries
\* that contain it
C26_DocFreqCountsEntries == CountsEntries

\* C29: a search never fails with a division by zero: whenever a query term
\* is scored for a document avg_doc_length is above zero and so is the
\* denominator of the term-frequency component
C29_NoDivisionByZero ==
    kcall.searched =>
        /\ kcall.error = "none"
        /\ \A i \in 1..Len(bm25.documents) :
             LET doc == bm25.documents[i]
                 query_tokens == _tokenize(kcall.query)
             IN  \A n \in ScoredTerms(bm25, query_tokens, doc) :
                    /\ RPos(bm25.avg_doc_length)
                    /\ RPos(TfDenominator(doc.term_freq[query_tokens[n]], doc.length,
                                          bm25.avg_doc_length))

\* a term is scored over a corpus that holds an entry without tokens
C29_Witness ==
    /\ kcall.searched
    /\ kout # <<>>
    /\ \E i \in 1..Len(bm25.documents) : bm25.documents[i].length = 0
    /\ \E i \in 1..Len(bm25.documents) :
         ScoredTerms(bm25, _tokenize(kcall.query), bm25.documents[i]) # {}

(***************************************************************************)
(* GenerationOrchestrator: RAGPipeline.search, retrieve, generate, rag,    *)
(* arag.  A Chunk is [text, chunk_index, document_id, title, page,         *)
(* section]; a ChatResponse is [answer, citations].                        *)
(***************************************************************************)
AnswerTopKs == {1, 5}

AnswerQueries == Queries \cup {<<"dogs">>}

\* the contents the generation client can return
Answers == {"", "Cats purr [1]"}

\* SearchResult(...) for r in results, rag_pipeline.py 51-64
RagHit(query, p) ==
    [chunk_text |-> p.text, score |-> Similarity(query, p),
     document_id |-> p.document_id, title |-> p.title, page |-> p.page,
     section |-> p.section, chunk_index |-> p.chunk_index]

\* RAGPipeline.search with filters=None: the top_k points by similarity
RagSearch(points, query, top_k) ==
    Truncate(RankByScore(<<>>, [i \in 1..Len(points) |-> RagHit(query, points[i])]), top_k)

\* Chunk(text=r.chunk_text, chunk_index=r.chunk_index, metadata={...})
ChunkOf(r) ==
    [text |-> r.chunk_text, chunk_index |-> r.chunk_index, document_id |-> r.document_id,
     title |-> r.title, page |-> r.page, section |-> r.section]

retrieve(points, query, top_k) ==
    LET results == RagSearch(points, query, top_k)
    IN  [i \in 1..Len(results) |-> ChunkOf(results[i])]

\* a guard that never takes the fallback branch
NoChunksNever(cs) == FALSE

\* if not chunks
NoChunks(cs) == cs = <<>>

FallbackResponse == [answer |-> FallbackAnswer, citations |-> <<>>]

\* ChatResponse(answer=llm_response.content, citations=citations, ...)
GeneratedResponse(content, cs) == [answer |-> content, citations |-> BuildCitations(cs)]

\* rag / arag up to the generation call: retrieve, and the fallback response
\* when nothing was retrieved
AnswerRetrieve ==
    /\ apc = "idle"
    /\ spc = "idle"
    /\ \E mode \in {"rag", "arag"}, q \in AnswerQueries, k \in AnswerTopKs :
         /\ acall' = [mode |-> mode, query |-> q, top_k |-> k]
         /\ achunks' = retrieve(store, q, k)
         /\ IF NoChunks(retrieve(store, q, k))
            THEN /\ response' = FallbackResponse
                 /\ apc' = "done"
            ELSE /\ response' = response
                 /\ apc' = "retrieved"
    /\ UNCHANGED llm_calls
    /\ UNCHANGED <<fusion_vars, stream_vars, retriever_vars>>
    /\ UNCHANGED <<keyword_vars, filter_vars, route_vars, repeat_vars>>

\* generate() (rag) or lines 136-159 (arag): one call of the generation
\* client, then the citations
AnswerGenerate ==
    /\ apc = "retrieved"
    /\ llm_calls' = llm_calls + 1
    /\ \E content \in Answers : response' = GeneratedResponse(content, achunks)
    /\ apc' = "done"
    /\ UNCHANGED <<acall, achunks>>
    /\ UNCHANGED <<fusion_vars, stream_vars, retriever_vars>>
    /\ UNCHANGED <<keyword_vars, filter_vars, route_vars, repeat_vars>>

\* the caller has the response (or the exception)
AnswerReturn ==
    /\ apc \in {"done", "failed"}
    /\ apc' = "idle"
    /\ acall' = NoAnswerCall
    /\ achunks' = <<>>
    /\ response' = NoResponse
    /\ llm_calls' = 0
    /\ UNCHANGED <<fusion_vars, stream_vars, retriever_vars>>
    /\ UNCHANGED <<keyword_vars, filter_vars, route_vars, repeat_vars>>

AnswerInit ==
    /\ \E n \in 0..MaxPoints : store = SubSeq(AllPoints, 1, n)
    /\ bm25 = EmptyIndex
    /\ index_built = FALSE
    /\ tpc = [t \in Threads |-> "idle"]
    /\ call = [t \in Threads |-> NoCall]
    /\ scan = [t \in Threads |-> NoScan]
    /\ out = [t \in Threads |-> NoOut]
    /\ obs = [t \in Threads |-> NoObs]
    /\ hist = NoHistory
    /\ StreamIdle
    /\ FusionIdle
    /\ OtherIdle
    /\ settings \in MethodChoices

\* one request at a time: a rag / arag call, or an arag_stream run
AnswerNext ==
    \/ AnswerRetrieve
    \/ AnswerGenerate
    \/ AnswerReturn
    \/ (apc = "idle" /\ StreamNext)

SpecAnswer == AnswerInit /\ [][AnswerNext]_vars

(***************************************************************************)
(* Properties of the answers                                               *)
(***************************************************************************)
\* C12: rag and arag with a retrieval of zero chunks return the fixed fallback
\* answer with an empty citation list, without a call of the generation
\* client and without raising.
C12_EmptyRetrievalFallback ==
    /\ (apc \in {"done", "failed"} /\ achunks = <<>>) =>
          /\ apc = "done"
          /\ response = [answer |-> FallbackAnswer, citations |-> <<>>]
          /\ llm_calls = 0
    /\ (apc = "retrieved") => achunks # <<>>

C12_Witness ==
    /\ apc = "done"
    /\ acall.mode = "arag"
    /\ achunks = <<>>
    /\ response.answer = FallbackAnswer

\* the i-th citation is built from the i-th chunk
CitesInOrder(cits, cs) ==
    /\ Len(cits) = Len(cs)
    /\ \A i \in 1..Len(cs) :
         /\ cits[i].index = i
         /\ cits[i].document_title = cs[i].title
         /\ cits[i].page = cs[i].page
         /\ cits[i].section = cs[i].section
         /\ cits[i].chunk_text = SubSeq(cs[i].text, 1, Min(Len(cs[i].text), ExcerptLen))

\* C13: for N >= 1 retrieved chunks the answer and the completed stream carry
\* exactly N citations, the i-th built from the i-th retrieved chunk with index
\* i, whatever text the generation client produced.
C13_OneCitationPerChunk ==
    /\ (apc = "done" /\ achunks # <<>>) => CitesInOrder(response.citations, achunks)
    /\ (spc = "done" /\ chunks # <<>>) =>
          /\ ~emitted[Len(emitted)].citations.none
          /\ CitesInOrder(emitted[Len(emitted)].citations.list, chunks)

\* two chunks retrieved, an empty generated text, two citations
C13_Witness ==
    /\ apc = "done"
    /\ Len(achunks) = 2
    /\ response.answer = ""
    /\ Len(response.citations) = 2

\* the keyword index a rebuild makes of the store
RECURSIVE IndexAll(_, _)
IndexAll(b, points) ==
    IF points = <<>> THEN b ELSE IndexAll(IndexPoint(b, Head(points)), Tail(points))

BuiltIndex(points) == build_vocab(IndexAll(EmptyIndex, points))

\* what HybridRetriever.search returns for the query on the store
HybridPassages(points, query) ==
    FinalResults(_fuse_results(settings,
                               _dense_search(points, query, top_k_dense),
                               ScoreDocuments(BuiltIndex(points), query, top_k_keyword)))

\* C18: the chunks rag / arag / arag_stream retrieve for the prompt and the
\* citations are the coordinator's fused ranked passages for the same query,
\* the first top_k of them in the same order.
C18_AnswerUsesFusedPassages ==
    apc \in {"retrieved", "done"} =>
        LET fused_passages == Truncate(HybridPassages(store, acall.query), acall.top_k)
        IN  /\ Len(achunks) = Len(fused_passages)
            /\ \A i \in 1..Len(achunks) :
                 /\ achunks[i].document_id = fused_passages[i].document_id
                 /\ achunks[i].chunk_index = fused_passages[i].chunk_index

(***************************************************************************)
(* Capability failures: the embedding call, query_points, scroll and the   *)
(* generation client raise; no caller in the core catches                  *)
(***************************************************************************)
\* an exception that is swallowed: the caller gets an empty result
RaiseMasked(e) == NoOut

\* the exception leaves search(): its locals are gone, the caller has e
Raise(e) == [NoOut EXCEPT !.error = e]

\* embed_text (line 118) or query_points (lines 134-140) raises
SearchDenseFails(t) ==
    /\ tpc[t] = "idle"
    /\ \E q \in Queries, uc \in BOOLEAN, e \in {"EmbeddingError", "StoreError"} :
         /\ call' = [call EXCEPT ![t] = [query |-> q, use_cache |-> uc]]
         /\ out' = [out EXCEPT ![t] = Raise(e)]
    /\ obs' = [obs EXCEPT ![t] = [NoObs EXCEPT !.cold = ~hist.rebuild_started,
                                               !.stored = Len(store)]]
    /\ tpc' = [tpc EXCEPT ![t] = "raised"]
    /\ UNCHANGED <<store, bm25, index_built, scan, hist>>
    /\ UNCHANGED <<fusion_vars, stream_vars, other_vars>>

\* scroll (lines 176-181) raises: the index stays as the rebuild left it
BuildScrollFails(t) ==
    /\ tpc[t] = "scroll"
    /\ out' = [out EXCEPT ![t] = Raise("StoreError")]
    /\ obs' = [obs EXCEPT ![t].scrolled = TRUE]
    /\ scan' = [scan EXCEPT ![t] = NoScan]
    /\ tpc' = [tpc EXCEPT ![t] = "raised"]
    /\ UNCHANGED <<store, bm25, index_built, call, hist>>
    /\ UNCHANGED <<fusion_vars, stream_vars, other_vars>>

\* the caller of search() has the exception
SearchRaised(t) ==
    /\ tpc[t] = "raised"
    /\ tpc' = [tpc EXCEPT ![t] = "idle"]
    /\ call' = [call EXCEPT ![t] = NoCall]
    /\ out' = [out EXCEPT ![t] = NoOut]
    /\ obs' = [obs EXCEPT ![t] = NoObs]
    /\ UNCHANGED <<store, bm25, index_built, scan, hist>>
    /\ UNCHANGED <<fusion_vars, stream_vars, other_vars>>

\* retrieve() raises in rag / arag (lines 118, 129)
AnswerRetrieveFails ==
    /\ apc = "idle"
    /\ spc = "idle"
    /\ \E mode \in {"rag", "arag"}, q \in AnswerQueries, k \in AnswerTopKs :
         acall' = [mode |-> mode, query |-> q, top_k |-> k]
    /\ apc' = "failed"
    /\ UNCHANGED <<achunks, response, llm_calls>>
    /\ UNCHANGED <<fusion_vars, stream_vars, retriever_vars>>
    /\ UNCHANGED <<keyword_vars, filter_vars, route_vars, repeat_vars>>

\* the generation client raises (line 92 through generate, line 138)
AnswerGenerateFails ==
    /\ apc = "retrieved"
    /\ llm_calls' = llm_calls + 1
    /\ apc' = "failed"
    /\ UNCHANGED <<acall, achunks, response>>
    /\ UNCHANGED <<fusion_vars, stream_vars, retriever_vars>>
    /\ UNCHANGED <<keyword_vars, filter_vars, route_vars, repeat_vars>>

\* retrieve() raises in arag_stream (line 164): nothing was yielded
StreamRetrieveFails ==
    /\ spc = "idle"
    /\ spc' = "failed"
    /\ UNCHANGED <<chunks, citations, llm_stream, emitted>>
    /\ UNCHANGED <<fusion_vars, retriever_vars, other_vars>>

\* the generation stream raises, at its start or between two tokens (line 187)
StreamGenerationFails ==
    /\ spc = "streaming"
    /\ spc' = "failed"
    /\ UNCHANGED <<chunks, citations, llm_stream, emitted>>
    /\ UNCHANGED <<fusion_vars, retriever_vars, other_vars>>

\* a search by one caller, with or without a failure
FailureSearch ==
    /\ apc = "idle"
    /\ spc = "idle"
    /\ \/ SearchStep(1)
       \/ SearchDenseFails(1)
       \/ BuildScrollFails(1)
       \/ SearchRaised(1)

FailureAnswer ==
    /\ tpc[1] = "idle"
    /\ \/ AnswerRetrieve
       \/ AnswerGenerate
       \/ AnswerReturn
       \/ AnswerRetrieveFails
       \/ AnswerGenerateFails

FailureStream ==
    /\ tpc[1] = "idle"
    /\ apc = "idle"
    /\ \/ StreamNext
       \/ StreamRetrieveFails
       \/ StreamGenerationFails

FailureNext == FailureSearch \/ FailureAnswer \/ FailureStream

SpecFailure == AnswerInit /\ [][FailureNext]_vars

\* a failed call hands its caller the error and nothing else
FailureVisible ==
    /\ tpc[1] = "raised" =>
          /\ out[1].error \in {"EmbeddingError", "StoreError"}
          /\ out[1].dense = <<>>
          /\ out[1].keyword = <<>>
          /\ out[1].results = <<>>
    /\ apc = "failed" =>
          /\ response = NoResponse
          /\ llm_calls <= 1
    /\ spc = "failed" => \A i \in 1..Len(emitted) : ~emitted[i].done

\* after the failure the call does nothing more
FailureFinal ==
    /\ tpc[1] = "raised" =>
          /\ tpc'[1] \in {"raised", "idle"}
          /\ UNCHANGED <<store, bm25, index_built>>
          /\ obs'[1].scrolled => obs[1].scrolled
    /\ apc = "failed" =>
          /\ apc' \in {"failed", "idle"}
          /\ llm_calls' \in {llm_calls, 0}
    /\ spc = "failed" => UNCHANGED <<spc, chunks, citations, llm_stream, emitted>>

\* C14: when the embedding call, the store's query or scroll, or the
\* generation call fails, the caller of search, rag / arag or arag_stream gets
\* the error: no result list, no fallback answer and no terminal stream item
\* comes in its place, and the call does not go on to call the capability
\* again.
C14_FailuresPropagate == []FailureVisible /\ [][FailureFinal]_vars

\* the scroll failed on its second page, after the first was indexed
C14_Witness ==
    /\ tpc[1] = "raised"
    /\ out[1].error = "StoreError"
    /\ obs[1].scrolled
    /\ bm25.documents # <<>>

(***************************************************************************)
(* Filter translation run on its own                                       *)
(***************************************************************************)
FilterInit ==
    /\ flpc = "input"
    /\ filters_in \in SeqsUpTo(FilterChoices, MaxFilters)
    /\ qdrant_filter = NoTranslation
    /\ KeywordIdle
    /\ AnswerIdle
    /\ RouteIdle
    /\ RepeatIdle
    /\ RetrieverIdle
    /\ StreamIdle
    /\ FusionIdle
    /\ settings = DefaultSettings

\* both builders are run on the list
TranslateFilters ==
    /\ flpc = "input"
    /\ qdrant_filter' = [dense |-> DenseFilter(filters_in), rag |-> _build_filter(filters_in)]
    /\ flpc' = "translated"
    /\ UNCHANGED filters_in
    /\ UNCHANGED <<fusion_vars, stream_vars, retriever_vars>>
    /\ UNCHANGED <<keyword_vars, answer_vars, route_vars, repeat_vars>>

FilterNext == TranslateFilters

SpecFilter == FilterInit /\ [][FilterNext]_vars

Supported(f) ==
    \/ f.operator = "eq"
    \/ f.operator = "in" /\ f.value.kind = "list"
    \/ f.operator \in {"gt", "gte", "lt", "lte"}

\* the filter has one condition per supported entry, in order
TranslatesSupported(flt, filters) ==
    LET kept == SelectSeq(filters, Supported)
    IN  IF kept = <<>> THEN flt.none /\ flt.must = <<>>
        ELSE /\ ~flt.none
             /\ Len(flt.must) = Len(kept)
             /\ \A i \in 1..Len(kept) :
                  /\ flt.must[i].key = kept[i].field
                  /\ flt.must[i].op = kept[i].operator
                  /\ flt.must[i].value = kept[i].value
                  /\ flt.must[i].kind =
                        (IF kept[i].operator = "eq" THEN "match_value"
                         ELSE IF kept[i].operator = "in" THEN "match_any" ELSE "range")

SearchFilters ==
    { <<>>,
      << [field |-> "chunk_index", operator |-> "gte", value |-> NumValue(1)] >>,
      << [field |-> "document_id", operator |-> "eq", value |-> StrValue("d2")] >>,
      << [field |-> "document_id", operator |-> "ne", value |-> StrValue("d1")] >> }

\* _dense_search with filters: query_points(query_filter=...) ranks the
\* points that pass the filter
FilteredDenseSearch(points, query, top_k, filters) ==
    _dense_search(SelectSeq(points, LAMBDA p : Passes(p, DenseFilter(filters))), query, top_k)

\* debug_info of the SearchResponse
DebugInfo(o, st) ==
    [dense_count |-> Len(o.dense), keyword_count |-> Len(o.keyword),
     fusion_method |-> st.fusion_method,
     weights |-> IF st.fusion_method = "weighted"
                 THEN <<st.dense_weight, st.keyword_weight>> ELSE <<>>,
     rrf_k |-> IF st.fusion_method = "rrf" THEN <<st.rrf_k>> ELSE <<>>]

\* search(query, filters, use_cache) is called; step 1, the dense search
SearchDenseFiltered(t) ==
    /\ tpc[t] = "idle"
    /\ \E q \in Queries, uc \in BOOLEAN, fs \in SearchFilters :
         /\ call' = [call EXCEPT ![t] = [query |-> q, use_cache |-> uc]]
         /\ call_filters' = fs
         /\ out' = [out EXCEPT ![t].dense = FilteredDenseSearch(store, q, top_k_dense, fs)]
    /\ obs' = [obs EXCEPT ![t] = [NoObs EXCEPT !.cold = ~hist.rebuild_started,
                                               !.stored = Len(store)]]
    /\ tpc' = [tpc EXCEPT ![t] = "keyword"]
    /\ UNCHANGED <<store, bm25, index_built, scan, hist, prev>>
    /\ UNCHANGED <<fusion_vars, stream_vars, keyword_vars, answer_vars, filter_vars, route_vars>>

\* the caller has its SearchResponse (or the exception)
SearchComplete(t) ==
    /\ tpc[t] = "done"
    /\ prev' = [valid |-> TRUE, query |-> call[t].query, filters |-> call_filters,
                use_cache |-> call[t].use_cache, stored |-> Len(store), index |-> bm25,
                cleared_after |-> FALSE, error |-> out[t].error,
                results |-> out[t].results, keyword |-> out[t].keyword,
                debug_info |-> DebugInfo(out[t], settings)]
    /\ call_filters' = <<>>
    /\ tpc' = [tpc EXCEPT ![t] = "idle"]
    /\ call' = [call EXCEPT ![t] = NoCall]
    /\ out' = [out EXCEPT ![t] = NoOut]
    /\ obs' = [obs EXCEPT ![t] = NoObs]
    /\ UNCHANGED <<store, bm25, index_built, scan, hist>>
    /\ UNCHANGED <<fusion_vars, stream_vars, keyword_vars, answer_vars, filter_vars, route_vars>>

\* a document is ingested between two calls
IngestBetween == tpc[1] = "idle" /\ Ingest

\* clear_index() between two calls
ClearIndexBetween ==
    /\ tpc[1] = "idle"
    /\ index_built \/ bm25 # EmptyIndex
    /\ bm25' = clear(bm25)
    /\ index_built' = FALSE
    /\ hist' = [hist EXCEPT !.cleared_since = TRUE, !.last_complete = EmptyIndex]
    /\ prev' = [prev EXCEPT !.cleared_after = prev.valid]
    /\ UNCHANGED <<store, tpc, call, scan, out, obs, call_filters>>
    /\ UNCHANGED <<fusion_vars, stream_vars, keyword_vars, answer_vars, filter_vars, route_vars>>

RepeatNext ==
    \/ IngestBetween
    \/ ClearIndexBetween
    \/ SearchDenseFiltered(1)
    \/ KeywordSearch(1)
    \/ BuildClear(1)
    \/ BuildScroll(1)
    \/ BuildAdd(1)
    \/ BuildFinish(1)
    \/ SearchVocab(1)
    \/ SearchScore(1)
    \/ SearchComplete(1)

SpecRepeat == RetrieverInit /\ [][RepeatNext]_vars

\* the point of the store a result was made from is excluded by the filters
Excluded(r, filters) ==
    \E i \in 1..Len(store) :
        /\ store[i].document_id = r.document_id
        /\ store[i].chunk_index = r.chunk_index
        /\ ~Passes(store[i], DenseFilter(filters))

InDense(r, dense) ==
    \E i \in 1..Len(dense) :
        dense[i].document_id = r.document_id /\ dense[i].chunk_index = r.chunk_index

\* C16: the keyword results of a search depend on the query and the keyword
\* index only: a search over the same index with the same query returns the
\* keyword results of the search before it, whatever the filters of the two
\* were, while its dense results are points that pass its filters
C16_KeywordIgnoresFilters ==
    (tpc[1] = "done" /\ out[1].error = "none")
        => /\ out[1].dense = FilteredDenseSearch(store, call[1].query, top_k_dense, call_filters)
           /\ out[1].keyword = ScoreDocuments(bm25, call[1].query, top_k_keyword)
           /\ (prev.valid /\ prev.error = "none" /\ prev.query = call[1].query
                  /\ prev.index = bm25)
                 => out[1].keyword = prev.keyword

\* a search whose filters differ from those of the search before it over the
\* same index, and that returns a chunk its filters exclude, as a keyword-only
\* entry
C16_Witness ==
    /\ tpc[1] = "done"
    /\ prev.valid /\ prev.query = call[1].query /\ prev.index = bm25
    /\ prev.filters # call_filters
    /\ DenseFilter(call_filters).none = FALSE
    /\ out[1].keyword # <<>>
    /\ \E i \in 1..Len(out[1].results) :
         /\ Excluded(out[1].results[i], call_filters)
         /\ ~InDense(out[1].results[i], out[1].dense)
         /\ RPos(out[1].results[i].keyword_score)

\* the call repeats the one before it: same query, filters and use_cache, the
\* store as it was
Repeats ==
    /\ tpc[1] = "done"
    /\ prev.valid
    /\ prev.query = call[1].query
    /\ prev.filters = call_filters
    /\ prev.use_cache = call[1].use_cache
    /\ prev.stored = Len(store)

SameResponse ==
    /\ out[1].error = prev.error
    /\ out[1].results = prev.results
    /\ DebugInfo(out[1], settings) = prev.debug_info

\* C17 as stated: a call that repeats the call before it returns what that
\* call returned
C17_RepeatedSearchIdentical == Repeats => SameResponse

\* C17, amended: a call that repeats the call before it, with no clear_index()
\* between the two, returns the results and the debug record that call
\* returned
C17_RepeatedSearchIdenticalUncleared == (Repeats /\ ~prev.cleared_after) => SameResponse

\* a repeated call that rebuilt the index, and one that used the index the
\* call before it built
C17_Witness ==
    /\ Repeats /\ ~prev.cleared_after
    /\ out[1].results # <<>>
    /\ out[1].keyword # <<>>
    /\ obs[1].scrolled = ~call[1].use_cache


(***************************************************************************)
(* The search route with use_hybrid (the module of src/app/models/search.py) *)
(* and the evaluator's constructor (evaluate_retrieval.py)                 *)
(*                                                                         *)
(* get_retrieval_settings() is cached: every caller in the process gets    *)
(* the one settings object.  Requests are handled one at a time.           *)
(***************************************************************************)
\* body.fusion_method: "" is None
BodyMethods == {"", "rrf", "weighted"}

\* lines 34-45: a HybridRetriever is made for the request, and the shared
\* settings' fusion_method is overwritten when the body names one
RouteOverride ==
    /\ rpc = "idle"
    /\ tpc[1] = "idle"
    /\ \E m \in BodyMethods :
         /\ body' = m
         /\ IF m # ""
            THEN /\ original_method' = settings.fusion_method
                 /\ settings' = [settings EXCEPT !.fusion_method = m]
            ELSE UNCHANGED <<original_method, settings>>
    /\ bm25' = EmptyIndex
    /\ index_built' = FALSE
    /\ hist' = NoHistory
    /\ rpc' = "searching"
    /\ UNCHANGED <<store, tpc, call, scan, out, obs, req>>
    /\ UNCHANGED <<dense_results, keyword_results, fused, fused_before, fpc>>
    /\ UNCHANGED <<stream_vars, keyword_vars, answer_vars, filter_vars, repeat_vars>>

\* lines 47-50: retriever.search(query, filters) runs or raises
RouteSearch ==
    /\ rpc = "searching"
    /\ \/ SearchDense(1)
       \/ SearchDenseFails(1)
       \/ KeywordSearch(1)
       \/ BuildClear(1)
       \/ BuildScroll(1)
       \/ BuildAdd(1)
       \/ BuildFinish(1)
       \/ SearchVocab(1)
       \/ SearchScore(1)

\* lines 52-54 and the return: fusion_method is put back when the body named
\* one; a search that raised leaves the route before these lines
RouteRestore ==
    /\ rpc = "searching"
    /\ tpc[1] \in {"done", "raised"}
    /\ settings' = IF body # "" /\ tpc[1] = "done" /\ out[1].error = "none"
                   THEN [settings EXCEPT !.fusion_method = original_method]
                   ELSE settings
    /\ rpc' = "idle"
    /\ body' = ""
    /\ original_method' = ""
    /\ tpc' = [tpc EXCEPT ![1] = "idle"]
    /\ call' = [call EXCEPT ![1] = NoCall]
    /\ out' = [out EXCEPT ![1] = NoOut]
    /\ obs' = [obs EXCEPT ![1] = NoObs]
    /\ UNCHANGED <<store, bm25, index_built, scan, hist, req>>
    /\ UNCHANGED <<dense_results, keyword_results, fused, fused_before, fpc>>
    /\ UNCHANGED <<stream_vars, keyword_vars, answer_vars, filter_vars, repeat_vars>>

\* RetrievalEvaluator(use_hybrid=True, fusion_method=m), lines 82-85: the
\* method is written into the settings object and stays
EvaluatorOverride ==
    /\ rpc = "idle"
    /\ \E m \in BodyMethods \ {""} :
         /\ m # settings.fusion_method
         /\ settings' = [settings EXCEPT !.fusion_method = m]
    /\ UNCHANGED <<dense_results, keyword_results, fused, fused_before, fpc>>
    /\ UNCHANGED <<stream_vars, retriever_vars, other_vars>>

RouteNext == RouteOverride \/ RouteSearch \/ RouteRestore \/ EvaluatorOverride

SpecRoute == AnswerInit /\ [][RouteNext]_vars

\* C19: no step changes the settings object
C19_SettingsNeverChange == [][settings' = settings]_vars


(***************************************************************************)
(* The keyword index after a rebuild                                       *)
(***************************************************************************)
\* the call of thread 1 has just finished _build_keyword_index, and the store
\* is the one the call was issued on
JustRebuilt == tpc[1] = "vocab" /\ obs[1].scrolled /\ obs[1].stored = Len(store)

EntriesOf(p) == {j \in 1..Len(bm25.documents) : bm25.documents[j].chunk_id = p.id}

C27_BuiltFlagMeansCompleteIndex ==
    (index_built /\ ~Rebuilding(1)) => (hist.rebuilt_once /\ bm25 = hist.last_complete)


(***************************************************************************)
(* Properties of the fusion: normalized scores, repeated keys              *)
(***************************************************************************)
WeightedDone == fpc = "fused" /\ settings.fusion_method = "weighted"

\* max(... , default=1.0) of a component over the merged entries
MaxDenseScore == RMaxSeq([i \in 1..Len(fused) |-> fused[i].dense_score], ROne)

MaxKeywordScore == RMaxSeq([i \in 1..Len(fused) |-> fused[i].keyword_score], ROne)

\* the normalized components of the i-th fused entry
NormDense(i) ==
    IF RPos(MaxDenseScore) THEN RDiv(fused[i].dense_score, MaxDenseScore) ELSE RZero

NormKeyword(i) ==
    IF RPos(MaxKeywordScore) THEN RDiv(fused[i].keyword_score, MaxKeywordScore) ELSE RZero

Unit(x) == RLe(RZero, x) /\ RLe(x, ROne)

SourceKeys == [i \in 1..Len(dense_results) |-> KeyOf(dense_results[i])]
                 \o [i \in 1..Len(keyword_results) |-> KeyOf(keyword_results[i])]

\* the keys of a list in the order of their first occurrences
RECURSIVE DistinctKeys(_)
DistinctKeys(keys) ==
    IF keys = <<>> THEN <<>>
    ELSE LET front == DistinctKeys(SubSeq(keys, 1, Len(keys) - 1))
             last == keys[Len(keys)]
         IN  IF \E i \in 1..Len(front) : front[i] = last THEN front
             ELSE Append(front, last)

NamedMethods == {"rrf", "weighted"}

InFlight(t) == req[t].pc \in {"searching", "restoring"}

Finished(t) == req[t].pc \in {"returned", "raised"}

\* what HybridRetriever.search returns for the query on the store under st
HybridPassagesWith(st, points, query) ==
    FinalResults(_fuse_results(st,
                               _dense_search(points, query, top_k_dense),
                               ScoreDocuments(BuiltIndex(points), query, top_k_keyword)))

\* lines 41-45 (86-90): the request names a method; the shared fusion_method
\* is saved in the local and overwritten
RequestOverride(t) ==
    /\ req[t].pc = "idle"
    /\ \E m \in NamedMethods, q \in AnswerQueries :
         req' = [req EXCEPT ![t] =
                    [pc |-> "searching", body |-> m,
                     original_method |-> settings.fusion_method, query |-> q,
                     used |-> "", results |-> <<>>,
                     started |-> IF \E u \in Threads : u # t /\ req[u].pc # "idle"
                                 THEN req[CHOOSE u \in Threads : u # t].started
                                 ELSE settings.fusion_method]]
       /\ settings' = [settings EXCEPT !.fusion_method = m]
    /\ UNCHANGED <<dense_results, keyword_results, fused, fused_before, fpc>>
    /\ UNCHANGED <<rpc, body, original_method>>
    /\ UNCHANGED <<stream_vars, retriever_vars, keyword_vars, answer_vars, filter_vars, repeat_vars>>

\* retriever.search(...): the dense and the keyword search, then
\* _fuse_results, which reads settings.fusion_method at line 265
RequestSearch(t) ==
    /\ req[t].pc = "searching"
    /\ req' = [req EXCEPT ![t].pc = "restoring",
                          ![t].used = settings.fusion_method,
                          ![t].results = HybridPassagesWith(settings, store, req[t].query)]
    /\ UNCHANGED <<fusion_vars, rpc, body, original_method>>
    /\ UNCHANGED <<stream_vars, retriever_vars, keyword_vars, answer_vars, filter_vars, repeat_vars>>

\* retriever.search raises: the handler is left at that line
RequestSearchRaises(t) ==
    /\ req[t].pc = "searching"
    /\ req' = [req EXCEPT ![t].pc = "raised"]
    /\ UNCHANGED <<fusion_vars, rpc, body, original_method>>
    /\ UNCHANGED <<stream_vars, retriever_vars, keyword_vars, answer_vars, filter_vars, repeat_vars>>

\* lines 53-54 (97-98): the local is written back, and the response returned
RequestRestore(t) ==
    /\ req[t].pc = "restoring"
    /\ settings' = [settings EXCEPT !.fusion_method = req[t].original_method]
    /\ req' = [req EXCEPT ![t].pc = "returned"]
    /\ UNCHANGED <<dense_results, keyword_results, fused, fused_before, fpc>>
    /\ UNCHANGED <<rpc, body, original_method>>
    /\ UNCHANGED <<stream_vars, retriever_vars, keyword_vars, answer_vars, filter_vars, repeat_vars>>

\* the worker thread takes the next request
RequestNext(t) ==
    /\ Finished(t)
    /\ \A u \in Threads : ~InFlight(u)
    /\ req' = [u \in Threads |-> NoRequest]
    /\ UNCHANGED <<fusion_vars, rpc, body, original_method>>
    /\ UNCHANGED <<stream_vars, retriever_vars, keyword_vars, answer_vars, filter_vars, repeat_vars>>

RequestsNext ==
    \E t \in Threads :
        \/ RequestOverride(t)
        \/ RequestSearch(t)
        \/ RequestSearchRaises(t)
        \/ RequestRestore(t)
        \/ RequestNext(t)

SpecRequests == AnswerInit /\ [][RequestsNext]_vars

\* C28: once every request that arrived has finished, fusion_method is what
\* it was before the requests started, and the fusion of every request that
\* returned ran under the method the request named
C28_OverrideIsolated ==
    /\ ((\E t \in Threads : Finished(t)) /\ (\A t \in Threads : ~InFlight(t))) =>
          \A t \in Threads : Finished(t) => settings.fusion_method = req[t].started
    /\ \A t \in Threads :
          req[t].pc \in {"restoring", "returned"} =>
             /\ req[t].used = req[t].body
             /\ req[t].results
                   = HybridPassagesWith([settings EXCEPT !.fusion_method = req[t].body],
                                        store, req[t].query)

====
